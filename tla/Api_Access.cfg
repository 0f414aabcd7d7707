SPECIFICATION ApiSpec
CONSTANTS
    u1 = u1
    u2 = u2
    s1 = s1
    ios = ios
    droid = droid
    regA = regA
    delA = delA
    call1 = call1
    Users = {u1, u2}
    Tokens = {droid}
    Registers = {regA}
    Deletes = {delA}
    CheckIns = {}
    Pushes = {call1}
    Hangups = {hang1}
    Reports = {rep1}
    Systemusers = {s1}
    UserOf <- OneUser
    CredOf <- OneSystemuser
    TokenOf <- TokenMap
    SandboxOf <- SandboxMap
    PlatformOf <- PlatformMap
INVARIANTS
    ApiTypeOK
    EveryEntryIsCountable
PROPERTIES
    OnlyOwnersWrite
CHECK_DEADLOCK FALSE
