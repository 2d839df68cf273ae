\* One reader, a mailbox longer than one poll, a mail, its answer and a mail that is refused, budgets of one body, one trouble.
SPECIFICATION FairSpec
CONSTANTS
    m1 = m1
    m2 = m2
    m3 = m3
    NoMail = NoMail
    Readers = {r1}
    Workers = {w1}
    Mails = {m1, m2, m3}
    Parent <- Threads
    Ignored = {}
    Malformed = {m3}
    PollBudget = 1
    Ingress = 1
    Limit = 2
    HeadLimit = 1
    QueueCap = 1
    MaxTroubles = 1
INVARIANTS
    CopiesBounded
    EmptyExplained
PROPERTIES
    NothingLost
    MailArrives
CHECK_DEADLOCK FALSE
