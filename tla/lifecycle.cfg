CONSTANTS
    l1 = l1
    l2 = l2
    q1 = q1
    q2 = q2
    r0 = r0
    r1 = r1
    r2 = r2
    None = None
    Tx = {t1}
    Builders = {b1}
    Logs = {l1}
    Quotas = {q1}
    Rules = {r0, r1}
    EmptyRules = r0
    RowStatuses = {"pending", "approved", "denied", "outdated", "other"}
    Heights = {10}
    Outcome <- OneRule
    SubmittedConfirmationTimeout = 1
    RiskModuleUnresponsiveTimeout = 1
    TotalRetryTimeout = 2
    TerminalEntryRetention = 3
    MaxAge = 4
    MaxGeneration = 2
SPECIFICATION Spec
INVARIANTS
    TypeOK
    ApprovedReviewed
    TombstoneHasCause
    DenialStands
PROPERTIES
    DeadlineWins
    RejectionRemembered
