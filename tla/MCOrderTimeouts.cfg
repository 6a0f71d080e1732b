CONSTANTS
    Orders <- MCOrders
    Users <- MCUsers
    NoUser = NoUser
    MaxPresses = 2
    MaxFailures = 2
SPECIFICATION Spec
INVARIANTS TypeOK OneTimer PromptsRemembered NoFalseTimeout HolderCanFinish AwaitingIsVisible
PROPERTIES WarnedFirst
CONSTRAINTS OneTrouble
CHECK_DEADLOCK FALSE
