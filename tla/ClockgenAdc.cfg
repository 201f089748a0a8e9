SPECIFICATION FairSpec
CONSTANTS
  CxOutputs = {0}
  Selections = {0, 1, 3}
  Rates = {48000, 46875, 44100}
  Depth = 2
  Frames = 2
  Tries = 2
INVARIANT AdcTypeOK
INVARIANT ReportIsOutput
INVARIANT SwapNeedsLoss
PROPERTY ChangeRepairs
PROPERTY BuffersFlow
PROPERTY DebugServed
