---------------------------- MODULE FlashSimulator ----------------------------
(***************************************************************************)
(* src/src/lsm-sim.cpp with the policies that keep flash behind a clock or *)
(* in blocks.  As in Simulator, the policy is chosen on the command line   *)
(* and given every request of the trace; policies that never run together  *)
(* share the variables of the same name, and those of the policies that    *)
(* were not chosen never change.                                           *)
(***************************************************************************)
EXTENDS Integers, FiniteSetsExt, SequencesExt

CONSTANTS
  Keys, Sizes,        \* request::kid and request::size()
  FewKeys,            \* the keys requested from all but the ramshield policies
  dram_size, flash_size, block_size, threshold,         \* the ramshield policies
  K_LRU, KLRU_QUEUE_SIZE, DRAM_SIZE, FLASH_SIZE, CLOCK_MAX_VALUE, \* the clock policies
  BLOCK_SIZE, Min_Block_Fill_Threshold,                 \* flashshield
  CLOCK_START_VAL, CLOCK_JUMP, MIN_QUEUE_TO_MOVE_TO_FLASH,        \* flashcachelrukclk
  TwoKeys, ML_DRAM_SIZE, ML_FLASH_SIZE, HitStartTimes, MaxDrift,
                                                        \* flashcachelrukclkmachinelearning
  num_sections, section_size, ripq_block_size, num_dsections, dsection_size  \* ripq, ripq_shield

VARIABLES
  policy,                                          \* policy_type
  pc, newItem, outcome,                            \* of all policies
  allObjects, flash, dramSize, flashSize,          \* of all but ripq and ripq_shield
  resume, dram, globalLru,                         \* of RamShield
  call, kLru, kLruSizes, dramLru, clockLru,        \* of policies with a clock
  svm_size,                                        \* of FlashShield
  hits,                                            \* of FlashCacheLrukClk and its variant
  dramItemList, svmItems, kLruAmountOfSVM,         \* of FlashCacheLrukClkMachineLearning
  AmountOfSVM_1, SVMCalculationRun, time, hit_start_time,
  stack, sections, map, bytes_cached,              \* of Ripq and RipqShield
  dsections                                        \* of RipqShield

tierVars  == <<allObjects, flash, dramSize, flashSize>>
ramVars   == <<resume, dram, globalLru>>
queueVars == <<call, kLru, kLruSizes, dramLru, clockLru>>
mlVars    == <<dramItemList, svmItems, kLruAmountOfSVM, AmountOfSVM_1, SVMCalculationRun, time,
               hit_start_time>>
ripqVars  == <<stack, sections, map, bytes_cached>>
vars == <<policy, pc, newItem, outcome, tierVars, ramVars, queueVars, svm_size, hits, mlVars,
          ripqVars, dsections>>

UpTo(mem) == {s \in Sizes : s =< mem}

Ram     == INSTANCE RamShield WITH Variant <- "ram_shield", stat_block_size <- block_size,
             DRAM_SIZE <- dram_size, FLASH_SIZE <- flash_size, Sizes <- UpTo(dram_size)
RamFifo == INSTANCE RamShield WITH Variant <- "fifo", stat_block_size <- block_size,
             DRAM_SIZE <- dram_size, FLASH_SIZE <- flash_size, Sizes <- UpTo(dram_size)
RamSel  == INSTANCE RamShield WITH Variant <- "sel", stat_block_size <- block_size,
             DRAM_SIZE <- dram_size, FLASH_SIZE <- flash_size, Sizes <- UpTo(dram_size)
Shield  == INSTANCE FlashShield WITH dram <- kLru, K_LRU_QUEUES <- K_LRU,
             Keys <- FewKeys, Sizes <- UpTo(KLRU_QUEUE_SIZE)
Clk     == INSTANCE FlashCacheLrukClk WITH dram <- kLru, FC_K_LRU <- K_LRU,
             FC_KLRU_QUEUE_SIZE <- KLRU_QUEUE_SIZE, Keys <- FewKeys, Sizes <- UpTo(KLRU_QUEUE_SIZE)
ML      == INSTANCE FlashCacheLrukClkMachineLearning WITH dram <- kLru, FC_K_LRU <- K_LRU,
             FC_KLRU_QUEUE_SIZE <- KLRU_QUEUE_SIZE, Keys <- TwoKeys, Sizes <- UpTo(KLRU_QUEUE_SIZE),
             FLASH_SIZE <- ML_FLASH_SIZE
MLSmall == INSTANCE FlashCacheLrukClkMachineLearning WITH dram <- kLru, FC_K_LRU <- K_LRU,
             FC_KLRU_QUEUE_SIZE <- KLRU_QUEUE_SIZE, Keys <- TwoKeys, Sizes <- UpTo(KLRU_QUEUE_SIZE),
             FLASH_SIZE <- ML_FLASH_SIZE, DRAM_SIZE <- ML_DRAM_SIZE
Ripq    == INSTANCE Ripq WITH block_size <- ripq_block_size,
             Keys <- FewKeys, Sizes <- UpTo(ripq_block_size)
RipqS   == INSTANCE RipqShield WITH block_size <- ripq_block_size,
             Keys <- FewKeys, Sizes <- UpTo(Min({ripq_block_size, dsection_size - 1}))

ASSUME FlashAssumptions ==
  /\ Ram!BlocksAssumption /\ RamFifo!BlocksAssumption /\ RamSel!BlocksAssumption
  /\ Shield!BlocksAssumption /\ Clk!TiersAssumption
  /\ ML!TiersAssumption /\ MLSmall!TiersAssumption
  /\ Ripq!SectionsAssumption /\ RipqS!SectionsAssumption
  /\ FewKeys \subseteq Keys /\ TwoKeys \subseteq Keys

(* The classifier's policy runs with two sizes of DRAM, too small and large *)
(* enough for what a cascade pushes out of a queue.                        *)
Policies == {"ramshield", "ramshield_fifo", "ramshield_sel", "flashshield", "flashcachelrukclk",
             "machinelearning", "machinelearning_small", "ripq", "ripq_shield"}

(* The switch over policy_type; warmup only matters to the classifier's. *)
Init ==
  /\ policy \in Policies
  /\ policy \in {"machinelearning", "machinelearning_small"}
       \/ hit_start_time = Min(HitStartTimes)
  /\ Ram!Init /\ Shield!Init /\ ML!Init /\ RipqS!Init

(* One member function of the policy, or one step of it. *)
RunRam(variant, Step) ==
  /\ policy = variant /\ Step
  /\ UNCHANGED <<queueVars, svm_size, hits, mlVars, ripqVars, dsections>>
RunShield(Step) ==
  /\ policy = "flashshield" /\ Step
  /\ UNCHANGED <<ramVars, hits, mlVars, ripqVars, dsections>>
RunClk(Step) ==
  /\ policy = "flashcachelrukclk" /\ Step
  /\ UNCHANGED <<ramVars, svm_size, mlVars, ripqVars, dsections>>
RunML(variant, Step) ==
  /\ policy = variant /\ Step
  /\ UNCHANGED <<ramVars, svm_size, ripqVars, dsections>>
RunRipq(Step) ==
  /\ policy = "ripq" /\ Step
  /\ UNCHANGED <<tierVars, ramVars, queueVars, svm_size, hits, mlVars, dsections>>
RunRipqShield(Step) ==
  /\ policy = "ripq_shield" /\ Step
  /\ UNCHANGED <<tierVars, ramVars, queueVars, svm_size, hits, mlVars>>

Proceed ==
  \/ RunRam("ramshield", Ram!Proceed) \/ RunRam("ramshield_fifo", RamFifo!Proceed)
  \/ RunRam("ramshield_sel", RamSel!Proceed)
  \/ RunShield(Shield!Proceed) \/ RunClk(Clk!Proceed)
  \/ RunML("machinelearning", ML!Proceed) \/ RunML("machinelearning_small", MLSmall!Proceed)
  \/ RunRipq(Ripq!Proceed) \/ RunRipqShield(RipqS!Proceed)

Next ==
  /\ \/ RunRam("ramshield", Ram!Next) \/ RunRam("ramshield_fifo", RamFifo!Next)
     \/ RunRam("ramshield_sel", RamSel!Next)
     \/ RunShield(Shield!Next) \/ RunClk(Clk!Next)
     \/ RunML("machinelearning", ML!Next) \/ RunML("machinelearning_small", MLSmall!Next)
     \/ RunRipq(Ripq!Next) \/ RunRipqShield(RipqS!Next)
  /\ UNCHANGED policy

(* proc runs to its end; nothing makes the trace go on. *)
Spec == Init /\ [][Next]_vars /\ WF_vars(Proceed /\ UNCHANGED policy)

-------------------------------------------------------------------------------
TypeOK ==
  CASE policy \in {"ramshield", "ramshield_fifo", "ramshield_sel"} -> Ram!TypeOK
    [] policy = "flashshield" -> Shield!TypeOK
    [] policy = "flashcachelrukclk" -> Clk!TypeOK
    [] policy = "machinelearning" -> ML!TypeOK
    [] policy = "machinelearning_small" -> MLSmall!TypeOK
    [] policy = "ripq" -> Ripq!TypeOK
    [] policy = "ripq_shield" -> RipqS!TypeOK

(* In every policy the lists, blocks, sections and rings, the hash table   *)
(* and the counts that are kept by hand agree, in the middle of evictions  *)
(* and nested calls as well as after them: see Consistent in each module.  *)
Consistent ==
  CASE policy \in {"ramshield", "ramshield_fifo", "ramshield_sel"} -> Ram!Consistent
    [] policy = "flashshield" -> Shield!Consistent
    [] policy = "flashcachelrukclk" -> Clk!Consistent
    [] policy = "machinelearning" -> ML!Consistent
    [] policy = "machinelearning_small" -> MLSmall!Consistent
    [] policy = "ripq" -> Ripq!Consistent
    [] policy = "ripq_shield" -> RipqS!Consistent

(* ripq, ripq_shield: an object counts for a virtual block that is evicted *)
(* after its physical block.                                               *)
VirtualAhead ==
  /\ policy = "ripq" => Ripq!VirtualAhead
  /\ policy = "ripq_shield" => RipqS!VirtualAhead

(* flashcachelrukclk, with and without its classifier: what is in flash    *)
(* was hit often enough to be there.                                       *)
FlashIsEarned ==
  /\ policy = "flashcachelrukclk" => Clk!FlashIsEarned
  /\ policy = "machinelearning" => ML!FlashIsEarned
  /\ policy = "machinelearning_small" => MLSmall!FlashIsEarned

(* No assertion fails: but for a block that is short in the ramshield      *)
(* policies, and in ripq for a request that replaces all that is cached.   *)
AbortsOnlyKnown ==
  /\ policy \in {"ramshield", "ramshield_fifo", "ramshield_sel"} => Ram!AbortsOnlyShort
  /\ policy = "flashshield" => Shield!NeverAborts
  /\ policy = "flashcachelrukclk" => Clk!NeverAborts
  /\ policy = "machinelearning" => ML!NeverDies
  /\ policy = "machinelearning_small" => MLSmall!NeverDies
  /\ policy = "ripq" => Ripq!AbortsOnlyLast
  /\ policy = "ripq_shield" => RipqS!AbortsOnlyLast

(* Every policy is a cache as the replay loop expects one (see Simulator), *)
(* through ghosts, blocks on their way back to DRAM, nested evictions and  *)
(* objects in the hands of a cascade.                                      *)
Contents ==
  CASE policy \in {"ramshield", "ramshield_fifo", "ramshield_sel"} -> Ram!Contents
    [] policy = "flashshield" -> Shield!Contents
    [] policy = "flashcachelrukclk" -> Clk!Contents
    [] policy = "machinelearning" -> ML!Contents
    [] policy = "machinelearning_small" -> MLSmall!Contents
    [] policy = "ripq" -> Ripq!Contents
    [] policy = "ripq_shield" -> RipqS!Contents
C == INSTANCE Cache WITH contents <- Contents
IsCache == C!CacheSpec

(* The eviction loops and the recursion come to an end: proc returns, or   *)
(* the process dies or is beyond what the language defines.                *)
Idle == pc = "ready" /\ newItem.kid = "none"
RequestCompletes == ~ Idle ~> Idle \/ pc \in {"aborted", "undefined"}
===============================================================================
