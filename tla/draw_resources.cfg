CONSTANTS
  here = here
  there = there
  ink = ink
  None = None
  Handles = {1, 2, 3}
  Placements = {here, there}
  Tabs = {1, 2}
  Texts = {ink}
  MaxKept = 2
  Budgets = {0, 1}
  Attempts = {2}
  Editors <- MCEditors
  MaxMishaps = 1
  Frames <- MCFrames
  Failures <- MCFailures
SPECIFICATION Spec
CHECK_DEADLOCK FALSE
INVARIANTS
  TrackingIsTrue
  NothingLeaks
  ReportsAreTrue
  DrawnSpansHaveWindows
PROPERTIES
  VanishingIsRedrawn
