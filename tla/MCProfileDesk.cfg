CONSTANTS
    Users <- MCUsers
    Admins = {}
    Packs <- MCPacks
    Prices <- MCPrices
    Hours <- MCHours
    Tiers <- MCTiers
    Orders <- MCOrders
    NoOrder = NoOrder
    MaxThreads = 2
    MaxSaves = 2
    MaxDecisions = 2
SPECIFICATION Spec
INVARIANTS TypeOK IndexFollowsRows DisabledIsEmpty RankedCanTake CanBePaid FormsComplete PricesAwaited
PROPERTIES BannedStaysOut
CONSTRAINTS ThreeChanges ShortReview ShortSteps
