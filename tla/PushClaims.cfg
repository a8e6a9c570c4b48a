SPECIFICATION Spec
CONSTANTS
    Address = {"bob", "Bob"}
    Lower <- MCLower
    Endpoint = {e1}
    Worker = {w1}
    Day = 4
    AggWindow = 1
    Quiet <- Daytime
    MaxCount = 1
    NoOne = NoOne
    NoTimer = NoTimer
    Fired = Fired
PROPERTIES QuietIsQuiet PushReachesAccount
