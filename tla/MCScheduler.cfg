CONSTANTS
  NumTasks = 3
  Policies = {"RR", "SJF", "MQ"}
  Periods = {1, 4}
  ReleaseTimes = {0, 2}
  Priorities = {1}
  Quanta = {1, 4}
  MaxCycles = 12
SPECIFICATION Spec
INVARIANTS EachTaskOnce NoneOversleeps LongestWaits OneMidLevel RoundRobin
