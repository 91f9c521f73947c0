SPECIFICATION FilterSpec
CONSTANTS
    Clients <- MCClients
    Lists <- MCLists
    HeaderTexts <- MCNoTexts
    Pages <- MCNoPages
    Failed = Failed
INVARIANT AllowedNeverBlocked
CHECK_DEADLOCK FALSE
