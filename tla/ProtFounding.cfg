SPECIFICATION Spec
CONSTANTS
    LastOrder = 2
    TierProt <- MCTierProt
    Syncers = {s1}
    MaxBusy = 2
    MaxSpent = 1
    Expiring = {1, 2}
    Disputed = {1, 2}
    None = None
    s1 = s1
INVARIANTS OverPosted NeverClawedTwice PastSettled ReleasedUnspent
CHECK_DEADLOCK FALSE
PROPERTY GrantedAtLast
