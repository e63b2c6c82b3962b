\* Every way to configure the widget, on a site with two directories.
SPECIFICATION Spec
CONSTANTS
  Options <- MCOptions
  Dirs <- MCDirs
  Path <- MCPath
  MaxSessions = 2
  MaxNotices = 2
  MaxRebinds = 2
  MaxTimers = 2
CONSTRAINT FewTimers
INVARIANTS
  BarToggles
  RestoredAsLeft
  UnreadBlinks
  HintTruthful
  ToThePresent
