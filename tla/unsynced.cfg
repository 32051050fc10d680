SPECIFICATION Spec
CONSTANTS
    Nil = Nil
    host = host
    guest = guest
    friend = friend
    d1 = d1
    d2 = d2
    d3 = d3
    c0 = c0
    c1 = c1
    c2 = c2
    Dinners = {d1, d2, d3}
    Codes = {c0, c1}
    Devices = {host, guest}
    MaxSessions = 1
    CountOfVisibleCards = 2
    LocalDecks <- TwoCards
    HostDecks <- LongDeck
    Collections = {{c0}}
    TypedCodes = {c1}
    Hosts = {host}
    Joiners = {guest}
    Soloists = {guest}
    Leavers = {}
    Exiters = {}
    Quitters = {}
    Careful = {host, guest}
    PartySize = 2
    MaxFailures = 0
    MaxKills = 0
    MaxReady = 2
    MaxVotes = 2
PROPERTIES
    RecordedSwipesAreShownCards
CHECK_DEADLOCK FALSE
