SPECIFICATION FairSpec
CONSTANTS
  Setups <- MCSetups
  Levels <- MCLevels
INVARIANT ToolsTypeOK
INVARIANT FileComplete
INVARIANT ExitCodeTells
INVARIANT LevelSettles
PROPERTY OffsetSettles
PROPERTY StopEnds
PROPERTY MonitorReplaced
PROPERTY UnbindCompletes
\* both programs end
CHECK_DEADLOCK FALSE
