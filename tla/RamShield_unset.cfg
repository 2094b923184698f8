CONSTANTS
  Variant = "ram_shield"
  Keys = {k1, k2, k3, k4}
  Sizes = {2}
  DRAM_SIZE = 4
  FLASH_SIZE = 4
  block_size = 2
  stat_block_size = 0
  threshold = 50
SPECIFICATION Spec
CHECK_DEADLOCK FALSE
INVARIANT AlwaysInserted
