CONSTANTS
  Clients = {c1, c2}
SPECIFICATION FairSpec
INVARIANTS TypeOK StillWhenFree NoCommandLostUnlessRushed
PROPERTIES ImplementsContract StopHalts ReachedEnds
