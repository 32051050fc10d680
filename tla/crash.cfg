SPECIFICATION Spec
CONSTANTS
    Nil = Nil
    host = host
    guest = guest
    friend = friend
    d1 = d1
    d2 = d2
    d3 = d3
    c0 = c0
    c1 = c1
    c2 = c2
    Dinners = {d1, d2, d3}
    Codes = {c0, c1}
    Devices = {host, guest}
    MaxSessions = 1
    CountOfVisibleCards = 2
    LocalDecks <- LongDeck
    HostDecks <- ShortDeck
    Collections = {{c0}}
    TypedCodes = {c1}
    Hosts = {host}
    Joiners = {host, guest}
    Soloists = {guest}
    Leavers = {}
    Exiters = {}
    Quitters = {}
    Careful = {host}
    PartySize = 1
    MaxFailures = 1
    MaxKills = 1
    MaxReady = 2
    MaxVotes = 1
INVARIANTS
    ReadyHaveVoted
    
PROPERTIES
    VotesAreKept
    
CHECK_DEADLOCK FALSE
