CONSTANTS
  Requests = {r1, r2}
  Limit = 2
  Targets <- MCTargets
  Loads <- MCLoads
  UpCooldown = 1
  DownCooldown = 2
SPECIFICATION FairSpec
INVARIANT TypeOK
PROPERTIES OnlyStaleScaleLeavesBounds ReturnsToBounds
