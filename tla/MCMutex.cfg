SPECIFICATION FairSpec
CONSTANT CPU = {c1, c2, c3, c4}
INVARIANT TypeOK
INVARIANT NoStrandedLock
PROPERTY SomebodyGetsIn
