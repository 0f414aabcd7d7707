SPECIFICATION Spec
CONSTANTS
    c1 = c1
    c2 = c2
    u1 = u1
    k1 = k1
    k2 = k2
    Calls = {c1, c2}
    Users = {u1}
    Keys = {k1}
    Responses = {r1}
    UserOf <- OneUser
    KeyOf <- OneKey
    PlatformOf <- Apple
    Wait = 1
    Resend = 1
    TTL = 3
SYMMETRY SymmetricCalls
INVARIANTS
    AckOnlyWhenAnswered
    UnavailableOnlyWhenRefused
