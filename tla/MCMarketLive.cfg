CONSTANTS
    Orders = {1, 2}
    Users = {u1}
    NoUser = NoUser
    MaxPending = 1
    Env = {"wakeLost", "claimLost", "sendError"}
    BatchLimit = 2
    ChunkSize = 2
    Sweeps = {s1}
    Amount <- MCAmount
SPECIFICATION FairSpec
PROPERTIES OrderDecided TakenResolved OfferAnswered
