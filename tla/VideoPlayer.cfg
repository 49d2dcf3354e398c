\* Two frames, and every sequence of six things that the user and the host may do.
CONSTANTS
  Frames = 2
  MaxInputs = 6
SPECIFICATION FairSpec
INVARIANTS PausedIsStill SeekBarFollows ButtonTellsState
PROPERTIES LastFrameIsShown
CHECK_DEADLOCK FALSE
