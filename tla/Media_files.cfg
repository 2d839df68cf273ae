\* An image of a visitor, a file of the contact, an image of an agent; one trouble.
SPECIFICATION MediaFairSpec
CONSTANTS
    u1 = u1
    u2 = u2
    u3 = u3
    visitor = visitor
    contact = contact
    agent = agent
    Nobody = Nobody
    Uploads = {u1, u2, u3}
    ByAgent = {u3}
    Images = {u1, u3}
    Users = {visitor, contact, agent}
    Visitor = visitor
    Contact = contact
    Uploader <- WhoUploads
    Reserve = 2
    MaxObjects = 4
    MaxOwned = 3
    MaxUnlinked = 3
    MaxTroubles = 1
INVARIANTS
    QuotasKept
    StoreAgrees
PROPERTIES
    UnusedGoes
CHECK_DEADLOCK FALSE
