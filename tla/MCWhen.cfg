CONSTANT N = 3
SPECIFICATION FairSpec
INVARIANTS
    JoinEndsOnce
    ResultIsRight
    StopComesFirst
PROPERTY JoinEnds
