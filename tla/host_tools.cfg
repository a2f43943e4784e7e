CONSTANTS
    Inputs <- MCInputs
    Values <- MCValues
    NodeIds <- MCNodeIds
    FunctionCodes <- MCFunctionCodes
    Objects = {0, 65535}
    Units = {0, 128}
    Positions <- MCPositions
    Payloads <- MCPayloads
    FrameLengths = {5, 65536}
    Files <- MCFiles
SPECIFICATION HostSpec
CHECK_DEADLOCK FALSE
INVARIANTS GenInv PrinterAgrees SubIndexed RefusalExact EnumValuesNamed DurationExact LogsShown
INVARIANTS PrintersAgree SubIdIsIndex
INVARIANTS ReadsAsMeant GotAsMeant NamesOfTheNode DbInv
