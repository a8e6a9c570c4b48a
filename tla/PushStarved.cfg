SPECIFICATION FairSpec
CONSTANTS
    Address = {"bob"}
    Lower <- MCLower
    Endpoint = {e1}
    Worker = {w1}
    Day = 4
    AggWindow = 1
    Quiet <- Overnight
    MaxCount = 1
    NoOne = NoOne
    NoTimer = NoTimer
    Fired = Fired
PROPERTY DigestAnnounced
