SPECIFICATION Spec
CONSTANTS
    Address = {"bob", "Bob"}
    Lower <- MCLower
    Password = {p1}
    Token = {t1, t2}
    Client = {c1, c2}
    TTL = 3
    Slack = 1
    MaxTime = 4
    NoToken = NoToken
SYMMETRY Symmetry
INVARIANT ActiveTokenLives
PROPERTY RevocationsJustified
