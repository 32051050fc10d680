SPECIFICATION FairSpec
CONSTANTS
    Nil = Nil
    v1 = v1
    v2 = v2
    v3 = v3
    d1 = d1
    d2 = d2
    Dinners = {d1, d2}
    Codes = {}
    Devices = {v1, v2, v3}
    MaxSessions = 1
    MaxTimes = 2
    MaxRounds = 4
INVARIANT ReturnsTheMostSupported
PROPERTY ReturnsIfUnanimous
CHECK_DEADLOCK FALSE
