SPECIFICATION PromptSpec
CONSTANTS
    c1 = c1
    c2 = c2
    u1 = u1
    k1 = k1
    k2 = k2
    Calls = {c1}
    Users = {u1}
    Keys = {k1}
    Responses = {r1}
    UserOf <- OneUser
    KeyOf <- OneKey
    PlatformOf <- Android
    Wait = 3
    Resend = 1
    TTL = 4
SYMMETRY SymmetricResponses
INVARIANTS
    RemovedTokenIsRefused
