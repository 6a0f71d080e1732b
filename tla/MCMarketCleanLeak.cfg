CONSTANTS
    Orders = {1}
    Users = {u1}
    NoUser = NoUser
    MaxPending = 1
    Env = {"clean"}
    BatchLimit = 1
    ChunkSize = 1
    Sweeps = {s1}
    Amount <- MCAmount
SPECIFICATION Spec
INVARIANTS SlotsConserved
