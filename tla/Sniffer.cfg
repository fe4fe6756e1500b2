CONSTANTS
  Frames <- MCFrames
  SnapLen = 74
  MaxFrames = 2
SPECIFICATION Spec
INVARIANTS DumpsSkipFourteen LinesAgree WithinCapture
CHECK_DEADLOCK FALSE
