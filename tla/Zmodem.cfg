SPECIFICATION Spec
CONSTANTS
  Sizes <- MCSizes
  File <- MCFile
  write_buf_size = 2
  PageSize = 2
  FLASH_SECTOR_SIZE = 4
  FlashSize = 8
  Window = 3
  MaxCalls = 2
  MaxFaults = 1
INVARIANT TypeOK
INVARIANT NothingLostOnTheWay
 
PROPERTY Arrives
PROPERTY RzReturns
CHECK_DEADLOCK FALSE
