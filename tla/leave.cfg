SPECIFICATION Spec
CONSTANTS
    Nil = Nil
    host = host
    guest = guest
    friend = friend
    d1 = d1
    d2 = d2
    d3 = d3
    c0 = c0
    c1 = c1
    c2 = c2
    Dinners = {d1, d2}
    Codes = {c0, c1}
    Devices = {host, guest}
    MaxSessions = 2
    CountOfVisibleCards = 2
    LocalDecks <- TwoCards
    HostDecks <- ShortDeck
    Collections = {{}, {c0}, {c0, c1}}
    TypedCodes = {c1}
    Hosts = {host}
    Joiners = {guest}
    Soloists = {}
    Leavers = {host, guest}
    Exiters = {guest}
    Quitters = {guest}
    Careful = {host, guest}
    PartySize = 2
    MaxFailures = 0
    MaxKills = 0
    MaxReady = 3
    MaxVotes = 1
INVARIANTS
    RunningGroupHasADeck
    WaitersListen
CHECK_DEADLOCK FALSE
