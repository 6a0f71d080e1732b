CONSTANTS
    Orders = {1, 2}
    Users = {u1}
    NoUser = NoUser
    MaxPending = 1
    Env = {"earlyTake", "taskError"}
    BatchLimit = 2
    ChunkSize = 1
    Sweeps = {s1, s2}
    Amount <- MCAmount
SPECIFICATION Spec
CONSTRAINTS AllArrived WithinTTL OneHandler
INVARIANTS NeverPaidBefore
PROPERTIES AnsweredOnce
