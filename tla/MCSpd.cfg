SPECIFICATION Spec
CONSTANTS
  Posts = {o1}
  Repeating = {o1}
  Points <- MCPoints
  Corrections <- MCCorrections
  LONG = 1
  ROBOT_LIMIT = 1
  MaxWindows = 1
  MaxJobs = 1
  MaxMods = 2
INVARIANTS
  OnePlanPerPost
  ConfirmedMeasured
  NoLongRepeat
PROPERTIES
  SettledForGood
  RobotPolls
