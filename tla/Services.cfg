\* Links: two, one visitor, four ticks of the clock, a link that lives one or two.  Accounts: two
\* users, two names, two passwords.  The agent: two tool calls a reply.  Notices: two files, two
\* receivers.  The pool: as many searches as connections.
CONSTANTS
    l1 = l1
    Links = {l1, l2}
    Visitors = {v1}
    NoLink = NoLink
    Lifetimes = {1, 2}
    DayLength = 2
    CookieLife = 1
    MaxClock = 4
    MaxShareFaults = 1
    People = {p1, p2}
    LoginNames = {a, b}
    Secrets = {s1, s2}
    Nobody = Nobody
    NoSecret = NoSecret
    MaxAccountChanges = 2
    MaxSmbFaults = 1
    RoundSettings = {1, 2, 4}
    MaxCalls = 2
    Buckets = {b1}
    Files = {f1, f2}
    Receivers = {r1, r2}
    NoticeDelay = 2
    Batches = {1, 2}
    MaxAttempts = 2
    MaxNetFaults = 2
    MaxSwitches = 1
    MaxBackendStops = 1
    Searches = {q1, q2}
    PoolSize = 2
\* Time, changes and faults are bounded: nothing is left to do at the end.
CHECK_DEADLOCK FALSE
SPECIFICATION ServicesSpec
INVARIANTS
    ServicesTypeOK
    LinksAreAsShown
    AccountsAreThoseOfLas
    ConversationIsRight
    ReceiversAreTold
    FewerNeverJam
PROPERTIES
    BatchWaitsForQuiet
    WhatBeginsEnds
