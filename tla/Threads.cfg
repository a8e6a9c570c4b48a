SPECIFICATION ThreadsSpec
CONSTANTS
    boss = boss
    bob = bob
    Account = {boss, bob, dave}
    Reader = {boss}
    SubordinatesOf <- MCSubordinatesOf
    Copied = {bob}
    Page <- MCPage
    Margin = 1
    Second <- MCSecond
    MaxMsg = 3
INVARIANT TopicBetween PageBetween
