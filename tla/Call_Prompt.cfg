SPECIFICATION PromptSpec
CONSTANTS
    c1 = c1
    c2 = c2
    u1 = u1
    k1 = k1
    k2 = k2
    Calls = {c1}
    Users = {u1}
    Keys = {k1}
    Responses = {r1}
    UserOf <- OneUser
    KeyOf <- OneKey
    PlatformOf <- Android
    Wait = 12
    Resend = 4
    TTL = 14
SYMMETRY SymmetricResponses
INVARIANTS
    TypeOK
    AnswerHonoured
PROPERTIES
    NoLatePush
