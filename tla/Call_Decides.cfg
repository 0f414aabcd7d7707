SPECIFICATION FairLateSpec
CONSTANTS
    u1 = u1
    k1 = k1
    Calls = {c1}
    Users = {u1}
    Keys = {k1}
    Responses = {r1, r2}
    UserOf <- OneUser
    KeyOf <- OneKey
    PlatformOf <- Android
    Wait = 2
    Resend = 1
    TTL = 3
PROPERTIES
    PlaceholderNeverErasesAnswer
    TurnedAwayAtTheEnd
    DecidesCalls
    PushesAsAssumed
    EachStepIsNearer
    EveryCallIsAnswered
