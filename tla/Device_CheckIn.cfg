SPECIFICATION Spec
CONSTANTS
    u1 = u1
    ios = ios
    droid = droid
    regA = regA
    regB = regB
    delA = delA
    chk1 = chk1
    chk2 = chk2
    call1 = call1
    Users = {u1}
    Tokens = {ios, droid}
    Registers = {regA, regB}
    Deletes = {}
    CheckIns = {chk1}
    Pushes = {}
    UserOf <- OneUser
    TokenOf <- TokenMap
    SandboxOf <- SandboxMap
    PlatformOf <- PlatformMap
PROPERTIES
    CheckInOnlyUpdatesLastSeen
CHECK_DEADLOCK FALSE
