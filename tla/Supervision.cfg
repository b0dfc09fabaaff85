CONSTANTS
  Pods = {p1}
  Procs = {q1, q2}
  NoPod = NoPod
  NoProc = NoProc
  Threshold = 2
  MaxQueue = 1
SPECIFICATION RacesSpec
INVARIANTS TypeOK OnlyRacesDuplicate
PROPERTIES StartupLeavesOneProcess DeadProcessReplaced
