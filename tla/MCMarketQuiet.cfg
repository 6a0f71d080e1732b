CONSTANTS
    Orders = {1, 2}
    Users = {u1, u2}
    NoUser = NoUser
    MaxPending = 1
    Env = {"sendError"}
    BatchLimit = 2
    ChunkSize = 1
    Sweeps = {s1}
    Amount <- MCAmount
SPECIFICATION Spec
SYMMETRY Symmetry
INVARIANTS SlotsConserved OneOpenOffer OneCreditPerOrder
PROPERTIES TakenUntilResolved ClosedStaysClosed ImplementsBoard
CONSTRAINTS OneHandler
