SPECIFICATION FairSpec
CONSTANTS
  Radix = 8
  IntRange = 16384
  PlaneRange = 8
  HeightRange = 4
  MaxFrame = 120
  ReadSizes = {1, 2, 3}
  Dialogues <- MCDialogues
INVARIANTS TypeOK ClientFollows
 
CHECK_DEADLOCK FALSE
