\* A visitor, a contact with or without an external id, three requests, one trouble.
SPECIFICATION ContactsSpec
CONSTANTS
    r1 = r1
    r2 = r2
    r3 = r3
    x1 = x1
    x2 = x2
    home = home
    away = away
    Visitor = visitor
    Contact = contact
    NoOne = NoOne
    NoExt = NoExt
    Requests = {r1, r2, r3}
    Persons = {x1, x2}
    Addresses = {home, away}
    Home = home
    NoMail = NoMail
    Pending = {home}
    Asks <- WhatIsAsked
    MaxTroubles = 1
INVARIANTS
    SenderOwns
    
PROPERTIES
    NothingVanishes
    BlockedIsSilent
CHECK_DEADLOCK FALSE
