SPECIFICATION ProgressiveSpec
CONSTANTS
  Jobs <- MCJobs
  FilterChoices <- MCFilterChoices
  Shades = {"Slope", "Noise"}
  Picture <- MCPicture
  FreshByte = 77
  Blank = 170
  Deliveries <- MCDeliveries
  Spare = 4
  Pauses = {"none", "save", "return"}
INVARIANTS
  StreamFits
  ImageIsRestored
  EveryRowIsCalled
  DisplayIsBlocky
  RowsSparkle
  NothingHeldBack
PROPERTY
  ImplementsPngFile
