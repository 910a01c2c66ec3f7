CONSTANTS
    n1 = n1
    n2 = n2
    n3 = n3
    k1 = k1
    k2 = k2
    k3 = k3
    MaxGroups = 4
    NonceKeys = {n1, n2, n3}
    QuotaKeys = {k1, k2, k3}
    EntrySets <- SmallGroups
    SubmitMaxConcurrency = 2
SPECIFICATION Spec
INVARIANTS
    TypeOK
    ConflictsInOrder
    BoundedConcurrency
    WorkConserving
