CONSTANTS
  Job = {m1, m2, m3}
  Operational = {}
  Unattended = {}
  NoJob = NoJob
  Minute = 1
  PerMinute = 1
  Hour = 2
  PerHour = 1
  Day = 8
  DailyCap = 2
  GapMin = 2
  GapMax = 3
  MaxFailures = 1
  MaxTime = 11
SPECIFICATION Spec
SYMMETRY Symmetry
INVARIANTS
  LimitsHold
