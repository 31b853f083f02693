SPECIFICATION FairSpec
CONSTANTS
  Timers = {animation, cleanup}
  MaxRequests = 3
  MaxFaults = 2
  MaxResets = 2
CHECK_DEADLOCK FALSE
INVARIANTS HandlesAreDriven NoOrphanTimers
PROPERTIES ImplementsOneShotTimers ArmedTimersAnswer
