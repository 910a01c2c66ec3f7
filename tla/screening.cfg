CONSTANTS
    l1 = l1
    l2 = l2
    q1 = q1
    q2 = q2
    r0 = r0
    r1 = r1
    r2 = r2
    None = None
    Tx = {t1}
    Builders = {b1}
    Logs = {l1, l2}
    Quotas = {q1, q2}
    Rules = {r0, r1, r2}
    EmptyRules = r0
    RowStatuses = {"pending", "approved", "denied", "outdated", "other"}
    Heights = {10}
    Outcome <- TwoRules
    SubmittedConfirmationTimeout = 1
    RiskModuleUnresponsiveTimeout = 1
    TotalRetryTimeout = 1
    TerminalEntryRetention = 2
    MaxAge = 3
    MaxGeneration = 1
SPECIFICATION Spec
INVARIANTS
    TombstoneHasCause
PROPERTIES
    ReleaseJustified
