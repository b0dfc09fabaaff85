CONSTANTS
  Pods = {p1}
  Procs = {q1, q2, q3}
  NoPod = NoPod
  NoProc = NoProc
  Threshold = 1
  MaxQueue = 1
SPECIFICATION RacesSpec
PROPERTY AnsweringPodIsRunning
