SPECIFICATION Spec
CONSTANTS
    r1 = r1
    r2 = r2
    r3 = r3
    a1 = a1
    a2 = a2
    a3 = a3
    a4 = a4
    bad = bad
    Requests <- MCRequests
    Requestable <- MCRequestable
    LoRAs <- MCLoRAs
    Managed <- MCManaged
    Unloadable <- MCUnloadable
    MaxLoras = 2
    MaxCpuLoras = 3
CHECK_DEADLOCK FALSE
INVARIANTS
    SlotsAgree
    BatchFits
    StepsSucceed
    RowsGetTheirAdapter
