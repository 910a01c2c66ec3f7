CONSTANTS
    Tx = {t1}
    Builders = {b1}
    MaxGeneration = 2
    EventCapacity = 1
    ListenerCapacity = 1
SPECIFICATION FairSpec
PROPERTIES
    RejectedLeavesTxpool
    AbsentAuditsReclaimed
