\* Every interleaving of the helper, its two children and the clock.  The
\* helper stops when it has returned.
SPECIFICATION FairSpec
CHECK_DEADLOCK FALSE
INVARIANTS TypeOK NothingLeftBehind StatusIsHonest
PROPERTY AlwaysReturns
