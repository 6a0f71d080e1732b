CONSTANTS
    Orders = {1, 2, 3}
    Users = {u1}
    NoUser = NoUser
    MaxPending = 1
    Env = {"ghostSend"}
    BatchLimit = 1
    ChunkSize = 1
    Sweeps = {s1}
    Amount <- MCAmount
SPECIFICATION Spec
INVARIANTS InWorkBound
CONSTRAINTS AllArrived WithinTTL
