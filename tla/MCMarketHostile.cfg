CONSTANTS
    Orders = {1}
    Users = {u1, u2}
    NoUser = NoUser
    MaxPending = 1
    Env = {"sendError", "ghostSend", "earlyTake", "lateTake", "clean", "crash", "taskError", "exception", "wakeLost"}
    BatchLimit = 1
    ChunkSize = 1
    Sweeps = {s1}
    Amount <- MCAmount
SPECIFICATION Spec
SYMMETRY Symmetry
INVARIANTS TypeOK TakerHoldsOffer
PROPERTIES AnsweredOnce
