CONSTANTS
    Profiles = {acme, globex}
    Home = acme
    NoEntry = NoEntry
    NoProfile = NoProfile
    MaxConnects = 3
SPECIFICATION Spec
INVARIANTS
    TypeOK
    OneCompany
    WriteAwaited
    Awaited
    SessionsOwned
PROPERTIES
    NoReplay
    ConfirmableCurrent
CHECK_DEADLOCK FALSE
