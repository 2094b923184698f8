CONSTANTS
  Keys = {k1, k2, k3, k4}
  Sizes = {1, 2}
  FewKeys = {k1, k2, k3}
  dram_size = 4
  flash_size = 4
  block_size = 2
  threshold = 50
  K_LRU = 2
  KLRU_QUEUE_SIZE = 2
  DRAM_SIZE = 3
  FLASH_SIZE = 3
  CLOCK_MAX_VALUE = 1
  BLOCK_SIZE = 3
  Min_Block_Fill_Threshold = 60
  CLOCK_START_VAL = 0
  CLOCK_JUMP = 1
  MIN_QUEUE_TO_MOVE_TO_FLASH = 1
  TwoKeys = {k1, k2}
  ML_DRAM_SIZE = 2
  ML_FLASH_SIZE = 1
  HitStartTimes = {2, 4}
  MaxDrift = 1
  num_sections = 2
  section_size = 3
  ripq_block_size = 3
  num_dsections = 2
  dsection_size = 3
SPECIFICATION Spec
CHECK_DEADLOCK FALSE
INVARIANTS TypeOK Consistent VirtualAhead FlashIsEarned AbortsOnlyKnown
PROPERTIES IsCache RequestCompletes
