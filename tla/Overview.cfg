SPECIFICATION OverviewSpec
CONSTANTS
    Address = {"alice", "bob", "carol"}
    Lower <- Lowercase
    MsgId = {1, 2}
    Client = {c1}
    Envelope <- MCEnvelope
    PageLimit = 1
    Offsets = {0}
    MaxTime = 0
    NoMsg = NoMsg
    Job = {j1}
    Superior = {"alice"}
    Cap = 1
    ListLimit = 1
    TopContacts = 1
    Order <- MCOrder
    Since = {0, 2}
INVARIANTS IndexesConsistent ViewedBelongsToTarget ListHasNoGap OverviewComplete EdgesCountOnce
PROPERTIES DeliveryAtomic RemovalAtomic
CHECK_DEADLOCK FALSE
