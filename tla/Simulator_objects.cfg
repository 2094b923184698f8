CONSTANTS
  Keys = {k1, k2, k3, k4}
  Sizes = {1, 2, 3}
  GlobalMem = 4
  MemSizes = {0, 2, 4}
  CLOCK_MAX_VALUE = 2
  K_LRU = 3
  KLRU_QUEUE_SIZE = 2
  DRAM_SIZE = 3
  FLASH_SIZE = 2
  FewKeys = {k1, k2, k3}
  FC_K_LRU = 3
  FC_KLRU_QUEUE_SIZE = 2
  DRAM_SIZE_FC_KLRU = 4
  Wrap = 1024
  top_data_bound = 9
  page_size = 2
  number_of_pages = 4
  num_hash_functions = 2
  Apps = {1, 2}
  TargetMem = 14
  MinMemPct = 50
  OSIZE = 2
  AET_PGAP = 2
  WorkingSets = {0, 2, 4}
  Misses = {0, 1, 2}
  TaxRate = 50
  InUse = {2}
  MaxPoints = 100
  smallest_class = 2
  CHUNK_ALIGN_BYTES = 2
  item_size_max = 8
  MAX_NUMBER_OF_SLAB_CLASSES = 8
  FactorNum = 2
  FactorDen = 1
  memcachier_count = 2
  SLABSIZE = 8
  partitions = 2
SPECIFICATION Spec
CHECK_DEADLOCK FALSE
INVARIANTS TypeOK Consistent PromotionIsEarned TiersAreOneLru DiesOnlyOversize
PROPERTIES SecondChance EvictsOldest IsCache RequestCompletes
