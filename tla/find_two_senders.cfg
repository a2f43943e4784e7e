SPECIFICATION Spec
CONSTANTS
 HeaderWords = 3
 LengthWord = 1
 CrcWord = 2
 MaxReceiveSize = 8
 UseLepto = TRUE
 Nodes = {7, 8, 9}
 Plan <- SharedPlan
 Restarting = {}
 TakeTurns = FALSE
 Lengths = {4}
 StaleLengths = {4}
 MaxRetry = 1
 ShredTimeout = 1
 ExecTimeout = 2
 ReceiverTimeout = 3
 SingleShot = FALSE
 MaxLosses = 0
 MaxFaults = 0
INVARIANT OneSender
CHECK_DEADLOCK FALSE
