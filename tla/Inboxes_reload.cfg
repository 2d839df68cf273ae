\* Two requests over one inbox, one after the other or at once, and one new token.
SPECIFICATION FairSpec
CONSTANTS
    Requests = {r1, r2}
    Forms <- SomeForms
    MaxTokens = 1
INVARIANTS
    OneReceiver
    
PROPERTIES
    BoundaryRevokes
    EverythingEnds
CHECK_DEADLOCK FALSE
