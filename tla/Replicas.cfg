CONSTANTS
  Pods = {1, 2}
  MaxDesired = 2
  Others = {g1}
  Gone = Gone
SPECIFICATION FairSpec
INVARIANTS TypeOK OvershootBounded
PROPERTY Converges
