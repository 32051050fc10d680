SPECIFICATION Spec
CONSTANTS
    Nil = Nil
    host = host
    guest = guest
    friend = friend
    d1 = d1
    d2 = d2
    d3 = d3
    c0 = c0
    c1 = c1
    c2 = c2
    Dinners = {d1}
    Codes = {c0, c1}
    Devices = {host, guest}
    MaxSessions = 2
    CountOfVisibleCards = 2
    LocalDecks <- OneCard
    HostDecks <- OneCard
    Collections = {{c0}}
    TypedCodes = {c1}
    Hosts = {host}
    Joiners = {guest}
    Soloists = {}
    Leavers = {}
    Exiters = {}
    Quitters = {guest}
    Careful = {host, guest}
    PartySize = 2
    MaxFailures = 0
    MaxKills = 0
    MaxReady = 3
    MaxVotes = 2
INVARIANTS
    VotesFitTheDeck
CHECK_DEADLOCK FALSE
