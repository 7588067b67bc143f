SPECIFICATION FairSpec
CONSTANTS
    Instances = {i1, i2}
    Callbacks = {c1, c2}
    Survivor = i1
    None = None
    Ttl = 1
    MaxNow = 2

INVARIANTS HolderKeepsRow OneReplica
PROPERTY TakenWhenExpired DeadHolderIsReplaced
