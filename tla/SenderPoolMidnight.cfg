CONSTANTS
  Job = {m1, m2, m3}
  Operational = {}
  Unattended = {}
  NoJob = NoJob
  Minute = 1
  PerMinute = 1
  Hour = 2
  PerHour = 1
  Day = 4
  DailyCap = 2
  GapMin = 1
  GapMax = 1
  MaxFailures = 1
  MaxTime = 5
SPECIFICATION Spec
INVARIANT HourlyCap
