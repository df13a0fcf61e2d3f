SPECIFICATION Spec
CONSTANTS
    Clients <- MCClients
    Passwords <- MCPasswords
    Default <- MCDefault
    TTL = 2
    Window = 1
    Zones <- MCZones
    MaxTime = 2
INVARIANTS
    TypeOK
    HoldersAtWork
PROPERTIES
    HalfAdminStays
    OnlyNobodyListed
    TokensEarned
