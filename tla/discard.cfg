CONSTANTS
    Tx = {t1, t2}
    Builders = {b1}
    MaxGeneration = 2
    EventCapacity = 1
    ListenerCapacity = 1
SPECIFICATION Spec
INVARIANTS
    TypeOK
    AnnouncedIsRejected
PROPERTIES
    EvictionsAccounted
    ForgottenOnlyIfGone
