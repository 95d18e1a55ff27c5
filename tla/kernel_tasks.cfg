\* Four slots, five programs started, two kills.  The machine may halt.
SPECIFICATION FairSpec
CONSTANTS
  MaxTasks = 4
  MaxRuns = 5
  MaxKills = 2
  Seconds = {0, 1}
INVARIANTS CurrentIsATask NoForeignStack
PROPERTIES KeepsTurns EveryTaskRuns KilledTaskStops
CHECK_DEADLOCK FALSE
