SPECIFICATION FairSpec
CONSTANTS
    p1 = p1
    p2 = p2
    a1 = a1
    a2 = a2
    s1 = s1
    s2 = s2
    sx = sx
    k1 = k1
    k2 = k2
    k3 = k3
    o1 = o1
    o2 = o2
    w1 = w1
    w2 = w2
    None = None
    Procs = {p1, p2}
    Accounts = {a1, a2}
    Secrets = {s1, s2, sx}
    Volumes = {k1, k2, k3, o1, o2, w1, w2}
    Account <- AccountOf
    Auth <- AuthOf
    SecretName <- NameOf
    DefaultName <- Defaults
    Inline = {w2}
    Scenarios <- AllScenarios
    MaxEvents = 3
    Bound <- BoundOf
INVARIANTS
    IInv
    KeysOfTheirAccount
    TicketIsCurrent
PROPERTIES
    MountsInTheEnd
\* The system stops when every volume is mounted and nothing happens any more.
CHECK_DEADLOCK FALSE
