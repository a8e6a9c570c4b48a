SPECIFICATION Spec
CONSTANTS
    Address = {"bob", "alice"}
    Lower <- MCLower
    Endpoint = {e1}
    Worker = {w1, w2}
    Day = 2
    AggWindow = 1
    Quiet <- ShortNight
    MaxCount = 1
    NoOne = NoOne
    NoTimer = NoTimer
    Fired = Fired
INVARIANT ArrivalsCovered
PROPERTY AggregationSpacing EndpointsKeepOwner
