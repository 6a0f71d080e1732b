CONSTANTS
    Orders = {1, 2}
    Users = {u1}
    NoUser = NoUser
    MaxPending = 1
    Env = {"sendError", "earlyTake", "lateTake", "crash"}
    BatchLimit = 1
    ChunkSize = 2
    Sweeps = {s1}
    Amount <- MCAmount
SPECIFICATION Spec
INVARIANTS SlotsCoverHeld
PROPERTIES AskedOnce
