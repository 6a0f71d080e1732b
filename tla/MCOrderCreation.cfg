CONSTANTS
    Originals <- MCOriginals
    Given <- MCGiven
    Spares <- MCSpares
    Amounts <- MCAmounts
    Claimed = 60
    Nameless = {"y"}
    Histories <- MCHistories
    MaxRequests = 2
SPECIFICATION Spec
INVARIANTS TypeOK OneRowPerOrder CodesAccounted NotForSale CodesApart HandedOverIsKnown BannedForCause CompletedIsDone
CHECK_DEADLOCK FALSE
