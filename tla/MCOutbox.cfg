\* Three pushes of any kind and a media message, against a full queue of two.
SPECIFICATION FairSpec
CONSTANTS
  Limit = 2
  PopBatch = 1
  MediaBatch = 1
  MediaCap = 1
  Motions <- MCMotions
  Hovers <- MCHovers
  Offers = {text}
  None = None
  MaxPush = 3
  MaxMedia = 1
INVARIANTS TypeOK InOrder NothingElseLost NoLostWakeup
PROPERTIES Drains CloseEndsWriter
CHECK_DEADLOCK FALSE
