# A verification development for lsm-sim

lsm-sim replays a trace of cache requests against one eviction policy and prints
hit rates.  The program is sequential: nothing in it runs concurrently, nothing
is persisted, and no message is exchanged.  What makes it hard is that one
request runs through long hand-written loops and recursions over structures that
hold each other's iterators (hash tables into lists, lists into segments, a clock
hand into a ring), and that bytes, segments and credit are counted by hand in
several places.  The questions a test hardly reaches are of the kind "after any
sequence of requests, in the middle of any cleaning ...": what this development
states, checks with TLC and, for the logs, the LRU queue with its hit-rate curve
and the policies of `Simulator`, proves with TLAPS.

Paths below are relative to `src/src/`.

## How to run

    tlc -config MCLscMulti_normal.cfg MCLscMulti     (any run of PROJECT.json)
    tlapm LscMultiProofs.tla                         (any module named ...Proofs,
                                                      QueueTheorems, SimulatorQueues
                                                      and SimulatorBooks)

The proofs of `Simulator` take a quarter of an hour for each of their modules.

A run marked `violation` in PROJECT.json is expected to end with a counterexample.

## 1. Inventory

| component | state | operations | how it is used |
|---|---|---|---|
| replay loop, `lsm-sim.cpp`, `policy.h`, `request.*`, `stats.h` | the chosen policy, the trace position | option parsing, `policy->proc(r, warmup)` per GET | owns the one policy; ignores what `proc` returns, reads statistics |
| `lsc_multi` | segments, hash table, per application: cleaning queue, shadow queue, bytes in use, credit | `proc`, `rollover`, `clean`, source choosers, `choose_survivor`, `try_steal_from`, arbitration, tax | core of the repository: several tenants share one log |
| `lsm` | segments, hash table, low timestamps | `proc`, `rollover`, `clean`, four source choosers | single-tenant ancestor of `lsc_multi` |
| `lru` | list, hash table, bytes | `proc`, `add`, `try_add_tail`, `remove`, `expand` | policy; shadow queues of `lsc_multi`; classes of `slab`, `slab_multi` |
| `shadowlru`, `shadowslab`, `partslab` | list, hit-rate curve; one queue per slab class | `proc`, `remove`, `get_class_frags` | hit rates of all cache sizes in one pass |
| `fifo`, `clock`, `lruk`, `victim_cache` | list(s), hash table, bytes; hand; K queues; two tiers | `proc` with its eviction loop or recursion | policies |
| `flash_cache`, `flash_cache_lruk`, `flash_cache_lruk_clock` | DRAM lists or queues, flash list, global order, credits | `proc`, credits, `dramAdd`, `dramAddandReorder`, `deleteItem` | DRAM over flash |
| `flash_cache_lruk_clock_machinelearning`, `flash_shield` | the same plus classifier features; flash blocks with ghosts | `proc`, `evict_item`, `evict_block`, `allocate_flash_block` | admission by an SVM called through Python |
| `ram_shield`, `ram_shield_fifo`, `ram_shield_sel` | DRAM, flash blocks with ghosts | `proc`, `add_item`, `evict_item`, `evict_block` | block-wise flash writes |
| `ripq`, `ripq_shield` | sections of blocks, virtual blocks | `proc`, `add`, `balance`, `evict` | priority queue on flash |
| `slab`, `slab_multi`, `mc` | one `lru` per class (and application) | `proc`, class table, stealing of slabs | memcached-like allocators |
| `mrc` and the arbitration in `lsc_multi` | reuse-distance samples, curves | `arbitrate_greedyFast` | shares of memory by marginal hit rate |
| `segment_util` | page fill levels | one pass over all objects | page utilisation, then `exit(0)` |
| `replay` | connections | forwards requests | measures a live memcached; compiled out |

Interactions are calls: the loop calls `proc`; `proc` of a log calls `rollover`,
which calls `clean`, which chooses sources and survivors, evicts into shadow
queues and returns to finish the store.  A hit in a shadow queue during `proc`
moves credit from one application to another and so changes whom the next
`clean` prefers.  The tiered policies loop or recurse inside one `proc`.

What is hard, and the property that makes each component correct:

* *Segments run out inside the cleaner.*  The cleaner takes destinations before
  it returns its sources; promoted, superseded and oversize items make its gain
  uncertain.  (`FreeSegments`, `CleaningSuffices`, `NoDangling`, `Consistent`)
* *Two books for the same bytes.*  Bills of applications, fill levels of segments
  and what the hash table knows are updated at different lines.
  (`SegmentAccounting`, `BillingExact`, `CreditConserved`, `Consistent`)
* *The cleaner decides who loses objects.*  Reservations and recency meet in
  `choose_survivor`.  (`ReservationPriority`, `SurvivorsAreNewest`,
  `GreedyIsGlobal`, `MinMemGuarantee`, `EvictsOnlyWhenFull`)
* *Iterators kept across calls.*  `cleaning_it` is left over from the last
  cleaning and read by the next.  (`LowNeedAppExists`)
* *Order kept across tiers and queues.*  (`TiersAreOneLru`, `PromotionIsEarned`,
  `SecondChance`, `EvictsOldest`, `LowTimestampIsLow`, `FlashIsEarned`,
  `VirtualAhead`)
* *Objects in nobody's hands.*  A block that is given up, a section that is
  evicted, a queue that overflows: while they run, objects are out of every list
  and count for nothing, and the nested calls look at the counts.  (`Consistent`)
* *A prediction that must agree with what it predicts.*  (`Inclusion`,
  `CurveIsRight`)
* *Numbers that leave their range.*  Shares of memory, page ends and distances
  are differences of unsigned numbers.  (`Consistent` of `Arbitration`,
  `SegmentUtil` and `ShadowSlab`)
* *Loops without a visible bound, and assertions nothing guards.*
  (`RequestCompletes`, `DiesOnlyOversize`, `AbortsOnlyKnown`)
* *Everything is still a cache.*  A request hits exactly when its object is held
  in its size, and nothing comes or goes otherwise.  (`IsCache`)

The hazards behind them are listed, each at its line, in PROJECT.json.

## 2. Modules

| module | models | abstracts |
|---|---|---|
| `Cache` | what the replay loop expects of any policy; the abstract specification | |
| `LscMulti` | `lsc_multi.cpp`, `lsc_multi.h` | times to their order `recency`; superseded items to counts per segment and application |
| `MCLscMulti` | instances of it | |
| `Lsm` | `lsm.cpp` with the policy OLDEST_ITEM | times of items and segments to one order `timeline` |
| `MCLsm` | an instance of it | |
| `Lru`, `ShadowLru`, `Fifo`, `Clock`, `Lruk`, `VictimCache`, `FlashCache`, `FlashCacheLruk` | the policy of that name | hash tables to functions or sets; the clock's list and hand to one ring; flashiness to the order it induces |
| `Mc` | the slab classes of `mc.cpp` and of memcachier | |
| `ShadowQueue` | the queue of `shadowlru.cpp` as `proc` and the distances see it; `ShadowLru` adds `remove` | |
| `ShadowSlab`, `PartSlab` | `shadowslab.cpp`, `partslab.cpp`, over `ShadowQueue` | the hash of a key to any partition |
| `SegmentUtil` | `segment_util.cpp` | hashes to any page; what lies past a vector to anything |
| `Arbitration` | `arbitrate_greedyFast` and `compute_idle_mem` of `lsc_multi.cpp`, what they read of `mrc.cpp` | miss-ratio curves to any that may be left in the map |
| `Simulator` | the switch over `-p` in `lsm-sim.cpp`, composing the policies of the rows from `Lru` to here | |
| `RamShield` | `ram_shield.cpp`, `ram_shield_fifo.cpp`, `ram_shield_sel.cpp` (constant `Variant`) | flashiness as above; flash blocks to what they hold, ghosts to the bytes they take |
| `ClockRing` | the clock that `flash_shield` and both `flash_cache_lruk_clock*` turn | list and hand to one ring |
| `FlashShield` | `flash_shield.cpp` | the classifier to a free choice |
| `FlashCacheLrukClk`, `FlashCacheLrukClkMachineLearning` | `flash_cache_lruk_clock.cpp`, `..._machinelearning.cpp` | the classifier to a free choice, time to the four phases the code tells apart |
| `Ripq`, `RipqShield` | `ripq.cpp`, `ripq_shield.cpp` | ghosts and blocks that count for nothing are left out |
| `FlashSimulator` | the same switch, composing the policies of the rows from `RamShield` to here | |
| `StackDistance` | a shadow queue next to a smaller and a larger LRU queue over one trace | |
| `Filter`, `RequestLists` | `list::erase` by value, and lists of requests: what several modules say of queues | |

and those that prove something:

| module | about |
|---|---|
| `QueueTheorems` | sums over finite sets, erasing from queues, order in queues: what the others cite |
| `LscMultiProofs` | `LscMulti`: its inductive invariant, segments, reservations, refinement of `Cache`; who survives a cleaning; credit, fill levels, bills |
| `LsmProofs` | `Lsm` |
| `LruProofs` | `Lru`: what each operation does to a queue |
| `StackDistanceProofs` | `StackDistance`: inclusion and the curve |
| `SimulatorProofs` | `Simulator`: what `VictimCache`, `Lruk`, `FlashCacheLruk`, `Clock`, `FlashCache` promise of the order of objects; the books of `VictimCache` and `FlashCache` |
| `SimulatorQueues` | the books of `Lruk` and `FlashCacheLruk` |
| `SimulatorBooks` | the books of `Clock`, `Lru`, `Fifo`, `ShadowLru` and `PartSlab`, and what follows from all of them for `Simulator` |

One action stands for one handler or, where a handler loops or recurses over
state another property looks at, for one round of it; `pc` says where a call of
`proc` is.  Names of variables and constants are those of the code.  History
variables that are not in the code say so where they are declared (`recency` in
the tiered policies, `behind` in `Clock`, `hits`, `seen`).  Definitions whose
comment calls them "the mutation" are the plausible mistakes the properties are
tried against (PROJECT.json, "mutants"); nothing else uses them.

**LscMulti.**  `Request(r)` is one call of `proc`: `Oversize`, `HitInLog`,
`StoreInHead` and `Rollover` are its early returns, its hit, its append and the
way into `rollover`; `StartClean` is `clean` up to its loop with the choice of
sources, `Relocate` one turn of the loop (survivor, destination, copy),
`EndRelocation` its exits, `EndClean` what is evicted into the shadow queues and
billed, and `StoreAfterRollover` the rest of `proc`.  `CrashInClean` is the null
dereference of lsc_multi.cpp:1769.  Outside of the model: the flags `lru_test`
and `u_mrc` (both off by default; the first turns stealing off, the second
replaces it by arbitration), and `compute_idle_mem`, the memory tax; the last
two are in `Arbitration`.  `frag_sz` is always 0.  The order of times is strict, here as
in `Lsm`: requests with equal timestamps are outside of the model.

**Arbitration.**  All that the arbitration and the tax change is
`credit_bytes`.  `Arbitrate` is `arbitrate_greedyFast` up to its branch, with the
division of a surplus; `Shrink` is one turn of the loop that takes memory away
step by step, `Divide` the loop that turns shares into credit, `Tax` one call of
`compute_idle_mem`.  Sizes are `size_t` there: `Wrap` says where they wrap.

**Lsm.**  `Hit`, `StoreInHead`, `Rollover`, `StoreAfterRollover` are `proc` and
`rollover`; `StartClean`, `RelocateToDst`, `RelocateToNewDst`, `StopRelocation`
and `Evict` are `clean`; `Abort` collects the assertions.  Assertions are live:
the Makefile does not define NDEBUG.

**Blocks of flash.**  In `RamShield` and `FlashShield` an object evicted from
flash stays in its block as a ghost and takes its bytes until the block, as a
whole, is given up; `EvictBlock` brings what is alive back to DRAM and
`AllocateBlock`, `AllocateFlashBlock` write the next block.  `HasRoom`,
`MustEvict` and `EvictShortBlock` are the tests of the loop in `proc`.  In
`Ripq`, `add` and `evict` call each other: `stack` holds the calls that are under
way, and `Seal`, `EvictBlock`, `Rewrite` and the like are rounds of their loops;
`RipqShield` instantiates it and adds its sections of DRAM, whose
moves call nothing back and are one step.

**Undefined ends.**  Where the code reads an object it has erased, the model
either takes any value that may be there or, when what follows is beyond saying,
ends in `pc = "undefined"`: the size of a block read after `erase`
(ram_shield.cpp:173, flash_shield.cpp:402), `isInDram` of an erased item
(ram_shield.cpp:86), the index past `kLruAmountOfSVM` (flash_shield.cpp:502,
511), the dangling reference of a section to its stats
(ripq.h:139), and the page past the end of a vector (segment_util.cpp:57).

**The classifier.**  `FlashShield` and the machine-learning cache call a Python
object.  What it answers is a free choice at every prediction, the features it
is told are left out, and the counts of approved objects are kept with the
code's own drift, which `MaxDrift` bounds between two requests.

**The small policies.**  `Proc(r)` is the lookup; `Evict...`, `Demote`,
`MoveToFlash`, `InsertCall`, `ReorderCall` are rounds of the loop or nested calls;
`Insert` ends the call.  `Abort` and `Crash` are a failing assertion and a read
of an empty list.  In `FlashCache` the flashiness is floating-point arithmetic
over times; the code only compares it, so an object that is added or hit takes
any place its beginning allows.

`ShadowSlab` counts a hit at the place its slab has among all slabs; a class
that would need a slab it was not given ends the run (`at` throws), which
`Consistent` excludes.  `SegmentUtil` collects objects (`Collect`) and then places
them, one per step, each with any pages for its hashes; its history variable
`extent` says where an object lies.

**Composition.**  `Simulator` and `FlashSimulator` instantiate the policies over
one set of variables; those of the policies that were not chosen never change.
`StackDistance` runs three of them in lockstep.  `Cache` is instantiated by
`LscMulti`, `Lsm`, `Simulator` and `FlashSimulator` with the refinement mapping
`contents`: the function from held keys to sizes.  Policies that serve nothing
(the shadow queues, `segment_util`) hold nothing there.

## 3. Runs

| run | shows | instance |
|---|---|---|
| `lsc_normal` | NORMAL sub-policy: types, segments, bills, credit, choice of survivors, refinement of `Cache`, completion | 2 applications, 3 keys, sizes 1-3 in segments of 2, 7 segments, width 3 |
| `lsc_greedy` | GREEDY sub-policy: cleaning is a global LRU | 5 segments, width 2 |
| `lsc_crash`, `lsc_shared`, `lsc_shadow` | counterexamples (section 5) | 5 segments, width 2 |
| `lsm_log` | the single-tenant log | 4 keys, 7 segments of 2, widths 3 and 1, one object outgrows a segment |
| `objects` | the thirteen policies of `Simulator`: agreement of all books, order promises, refinement of `Cache`, completion | 3 or 4 keys, sizes 1-3, tiers of 2 to 4 bytes, 3 queues of 2 bytes; 4 pages of 2 bytes; 2 applications; slabs of 8 bytes |
| `flash_simulator` | the policies with blocks, sections and clocks: the same, with `VirtualAhead`, `FlashIsEarned` and `AbortsOnlyKnown` | 2 to 4 keys, sizes 1 and 2, DRAM and flash of 1 to 4 bytes, 2 blocks of 2 or one of 3, 2 sections |
| `stack_distance` | the curve against two caches | 4 keys, sizes 1, 2, 4, caches of 3 and 6 bytes |
| `shadow_miss`, `shadow_remove`, `ramshield_unset` | counterexamples (section 5) | 2 to 4 keys |

Why these bounds are enough to make the interesting cases happen:

* *Logs.*  A width of 3 gives two destinations, so that the cleaner rolls over
  from one to the next, and seven segments are the fewest the constructor
  accepts.  Segments of 2 with sizes 1 and 2 leave gaps at their ends; the size
  3 is the object that fits nowhere.  Three keys of two applications suffice for
  stealing in both directions, for an application at its reservation and one
  above; `Lsm` needs a fourth key before a cleaning has to throw anything away.
  Its constructor also accepts a width of 1, with which the first cleaning finds
  no destination (lsm.cpp:400) and the program ends: `lsm_log` runs both.
  One application per key: `lsc_shared` shows what happens otherwise.
* *Policies.*  The cache holds two or three objects, an object may be as large as
  the whole cache or, where the code allows it, larger; three queues of 2 bytes
  under 4 bytes of DRAM let one hit push objects down two levels.
* *Blocks.*  `RamShield` has two flash blocks of two bytes, so that one is given
  up while the other is in use, and DRAM for two objects of the largest size;
  `FlashShield` has one block of 3 bytes that two objects do not always fill.
  When one object fills DRAM the loop of `fifo` and `sel` does not end
  (section 5), so that case is outside of the run.
* *Clocks and classifier.*  Two queues of 2 bytes under 3 bytes of DRAM, a
  counter of at most 1: the hand comes round with and without a zero.  The machine
  learning cache runs on two keys, with DRAM of 3 and of 2 bytes, and with a
  warmup that ends before and after the time it records until.
* *Sections.*  Two sections of one block of 3 bytes each are the least for which a
  virtual block is ahead of a physical one, for `add` to evict and `evict` to add.
* *Slabs.*  Classes of 2 and 4 bytes and slabs of 8: an object changes its class,
  a class comes to own two slabs, and the largest object has no class.
* *Pages.*  Four pages of 2 bytes, up to 9 bytes of objects of 1 to 3, or 5,
  bytes: an object starts at the end of a filled page, ends on a boundary, spans
  three pages, and meets the end of the vector.
* *Arbitration.*  Two applications of 7 objects, half of which reserved (3, which
  is no multiple of the step of 2), working sets of 0 to 4 objects: there is a
  surplus, a lack, and a share that is taken below nothing.  A memory of more than
  `MaxPoints` objects is one whose curve cannot be stored.
* *Curve.*  Traces of mixed sizes and of one size: exactness is only promised for
  the latter.
* `Wrap` stands for 2^64: unsigned subtraction is taken modulo it, and every sum
  is far below.  `FlashCache` caps credits at `DRAM_SIZE`, all that one request
  can spend; `hits` is capped at the number of queues.

The state spaces are finite without further constraints.  `CHECK_DEADLOCK FALSE`
is set where an assertion that fails ends the program.

**Fairness.**  `WF_vars(Proceed)` only: a call of `proc` runs to its end, for the
program has one thread and nothing in `proc` waits.  Nothing is assumed of the
trace, which may end at any time.  `RequestCompletes` is therefore a statement
about the loops and recursions inside `proc`: each has a variant.

## 4. What is proved

For every set of applications, keys and requests, every size and number of
segments, queues and tiers, within the assumptions below:

| module | theorem | states |
|---|---|---|
| `LscMultiProofs` | `Invariance` | the inductive invariant `Inv` below |
| | `TypeCorrect` | `[]TypeOK`, with it that no segment is filled beyond its size |
| | `NeverDangling` | `[]NoDangling`: the hash table leads into segments that exist |
| | `FreeSegmentsSuffice` | `[]FreeSegments`: the assertions of `rollover` and `choose_cleaning_destination` cannot fail |
| | `LowNeedNeverNull` | `[]LowNeedAppExists`: the low-need chooser never dereferences null |
| | `ReservationsHold` | `[]MinMemGuarantee`: stealing respects reservations |
| | `LogIsCache` | `Spec => IsCache`: `LscMulti` implements `Cache` |
| | `EvictionsAreForced` | `[]EvictsOnlyWhenFull`: what is evicted did not fit into the destinations |
| | `LruWithinApplications` | `[]SurvivorsAreNewest`: within an application the newest survive |
| | `ReservedGoFirst` | `[]ReservationPriority`: applications below their reservation go first |
| | `GreedyIsGlobalLru` | `[]GreedyIsGlobal`: GREEDY is LRU across applications |
| | `QueuesAreRight` | `[]QueuesOK`: the order of times, and the shadow queues within their capacity |
| | `CreditIsConserved` | `[]CreditConserved`: steals only move credit |
| | `FillLevelsAreRight` | `[]SegmentAccounting`: a fill level is the live and superseded bytes of its segment |
| | `BillsAreExact` | `[]BillingExact`, if each key belongs to one application and a `size_t` counts the log |
| `LsmProofs` | `TypesAreRight`, `BooksAreRight` | `[]TypeOK`, `[]Consistent`: free count, hash table, times, fill levels |
| | `CleaningGainsSegments` | `[]CleaningSuffices`: with a width above one only an object that outgrew a segment ends the program |
| | `LowTimestampsAreLow` | `[]LowTimestampIsLow` |
| | `NewestSurvive` | `[]SurvivorsAreNewest` |
| | `LogIsCache` | `Spec => IsCache`: `Lsm` implements `Cache` |
| `LruProofs` | `QueueIsConsistent` | list, table and bytes of an LRU queue agree, in every order of `proc`, `remove`, `try_add_tail`, `expand` |
| `StackDistanceProofs` | `SmallerIsInLarger` | `[]Inclusion`: a smaller cache is the newest end of a larger one, and this of the shadow queue |
| | `TheCurveIsRight` | `CurveIsRight`: hits are predicted, and with one size of objects predictions are hits |
| `SimulatorProofs` | `OneLruInTwoTiers` | `[]TiersAreOneLru`: the tiers of `victimcache` are one LRU list |
| | `NoUnearnedPromotion` | `[]PromotionIsEarned`: in `lruk` and `flashcachelruk` nothing is above its hits |
| | `UsedGetASecondChance` | `SecondChance`: `clock` evicts what ran out of credit first |
| | `OldestAreEvicted` | `EvictsOldest`: `flashcache` evicts nothing that is newer than what stays in DRAM |
| `SimulatorBooks` | `BooksAgree` | `[](policy \in Followed => Consistent)`: lists, tables and byte counts agree in the middle of every cascade |
| | `BooksAreTyped` | `[](policy \in Followed => TypeOK)`: no count becomes negative |
| | `OversizeIsTheOnlyDeath` | `[]DiesOnlyOversize`: no assertion fails and no empty list is read but for an object too large for its place |
| | `PoliciesAreCaches` | `Spec => IsCache`: all policies of `Simulator` implement `Cache` |

`Followed` are `lru`, `fifo`, `clock`, `lruk`, `victimcache`, `flashcache`,
`flashcachelruk`, `shadowlru` and `partslab`; of the thirteen choices of
`policy` it leaves out the two variants of `shadowslab`, `multi` and
`segment_util`.

**Assumptions**, each named in the module that declares the constant.  Of
`LscMulti`: the constructor's `segments.size() > 2 * cleaning_width` with a width
of at least 1, sizes that are positive, applications that are known, finite sets
of keys and applications, capacities of shadow queues that are natural numbers.
Of `Lsm`: the same about segments, and a trace that is not empty.  Of the
policies: sizes are positive and memory is a natural number; the set of sizes is
finite; the counter of `clock` can count.  Of `StackDistance`: the smaller cache
is not the larger, and keys and sizes are so few that `Wrap` (2^64) is beyond
every distance.  `BillsAreExact` has two more hypotheses, `OneOwner` and `LogFits`;
`lsc_shared` is the counterexample without the first.

**lsc_multi: segments.**  `Inv == TypeOK /\ SegmentInv /\ RoomInv /\ QueueInv /\
MinMemGuarantee`.  None of the properties is inductive by itself: that a free
segment is found needs to know *how many* are free at each stage of a call, which
depends on what the cleaner holds (`SegmentInv`: free segments and destinations
together are one less than the width while it runs, because rollover took the
one that made it run); that a copied item fits into a fresh destination needs
that free segments are empty and no cached item is larger than a segment
(`RoomInv`); that the low-need chooser finds an application needs that a cleaning
which ends has had an item to move (`QueueInv`), which holds up to the crash
`CrashInClean`.  There is one lemma per action, `NextInv` joins them, and
`StepRefines` shows that a step of the log is a step of `Cache` or a stutter, with
the invariant to exclude that the request being stored was already a hit.

**lsc_multi: the cleaner.**  Everything rests on one lemma about a turn of the
relocation loop: the item that moves is the newest one queued of the application
that was chosen.  With it the three order properties are inductive relative to
`Inv`.  `EvictsOnlyWhenFull` is not: it needs that a destination that was left
behind was `Tight`, too full for some size, when it was left (`FullInv`).

**lsc_multi: the books.**  Sums are folds over finite sets, and their laws are
proved in `QueueTheorems` by induction in the form "a set of naturals, or of
subsets, with this property is all of them".  A bill is proved equal to what the
application holds in the segments that are not being cleaned (`BillInv`), so that
it is never below what `clean` deducts and no subtraction wraps.  A bill does not survive a change of owner; hence `OneOwner`.

**lsm.**  The invariant counts the free segments at each stage (`CountInv`) and
places what is cached (`ItemInv`, `SpaceInv`); of the timeline it says that each
live item is on it once, before the low timestamp of its segment (`LowInv`), and
that what the cleaner has kept is before what it has not reached (`KeptInv`).
A cleaning returns as many segments as the width and never takes that many
destinations, which the count shows for each way out of the loop; what remains
is why the program may have been aborted (`AbortInv`).

**lru and the curve.**  `LruProofs` says of each operation which keys, in which
order and with how many bytes, are in the queue afterwards; `StackDistanceProofs`
instantiates it twice.  Inclusion is that one queue is the beginning of another;
a request preserves it because each queue keeps as many of its newest objects as
fit, by bytes that are counted right (`StackInv`).  For the curve, the shadow queue
must also have every key seen, and for exactness with one size the caches must be
`Crowded`: one object more of the shadow queue would not have fitted (`CurveInv`).  A distance is never above the bytes of all keys, so it does not wrap.

**The tiers and the queues.**  The order properties do not depend on the bytes
the loops count, whatever they evict: this is why one invariant for each policy
(`VictimInv`, `LrukInv`, `KlruInv`, `ClockInv`, `FlashInv`) suffices.
`TiersAreOneLru` follows from the order of each tier being that of the last use
and DRAM being before flash, for an order in which each element occurs once
determines the sequence.  `PromotionIsEarned` needs that an object under way
between two queues is in none, and is bound for one it deserves.
`SecondChance` needs, of every object that had run out of credit when another
was filled and was not used since, that it is still at zero, and that it is
ahead of the other in the ring as soon as that one has lost credit: the hand,
which turns the ring, never passes an object at zero.  `EvictsOldest` needs
that the list of all objects is in the order of the last use and the list of
DRAM a part of it, and that what does not fit is the end of a list.  The
history variables (`recency`, `hits`, `behind`) occur in no guard.

**The books of the policies.**  Each policy has an invariant for what it keeps
by hand (`VictimBooks`, `FlashBooks`, `LrukBooks`, `KlruBooks`, `ClockBooks`,
`FifoBooks` and so on), of three parts: which list an object is in, which it is
said to be in by the hash table, and what the counts come to.  The order of the
lists, where it matters, comes from the invariants above.  A count is a sum over
a *set* of objects, for the order in which the bytes were added does not matter;
so a list that is cut, reversed or appended to another changes its sum as a set
does.  `Consistent` is not inductive: in the middle of a cascade an object that
was pushed out is in no list, and the next call has to find room for it.  What is
inductive is that what is on its way had its bytes taken from the queue it left,
and that it fits into the place it goes to once that one is emptied, unless it is
larger than the place.  From this come both the bounds on queues and tiers and
`DiesOnlyOversize`: an assertion can fail only for an oversize object.  With the
books in order a step of a policy is a step of `Cache` or a stutter, `Contents`
being the hash table (for `fifo`, what its queue says is hashed); the policies
that serve nothing keep `Contents` empty.

**Only model-checked:**

* `RequestCompletes` in all runs: TLAPS treats neither fairness nor `ENABLED`.
* `TypeOK` and `Consistent` of `Simulator` for the policies outside of `Followed`.
  `segment_util`, `shadowslab` and `multi` compute with quotients and remainders
  of numbers that wrap at 2^64, and the classes of `shadowslab` come from a fold
  over its table; the provers have little arithmetic of that kind.
* Everything of `FlashSimulator`, `VirtualAhead` and `FlashIsEarned` included.
  Its policies keep blocks in sequences of sequences or a ring next to the
  queues, and each of its invariants speaks of several of them, so that none
  follows before the books of all of them are proved.

## 5. Findings

| run | where | what |
|---|---|---|
| `lsc_crash` | lsc_multi.cpp:1769 | sources that hold only superseded items: `clean` reads a destination that was never chosen |
| `lsc_shared` | lsc_multi.cpp:1122 | a hit by another application takes the item over without its bill |
| `lsc_shadow` | lsc_multi.cpp:1858 | a full shadow queue takes nothing more: it keeps the objects that were evicted first |
| `shadow_miss` | shadowlru.cpp:49 | a key never seen before is recorded as a hit at the size of the queue |
| `shadow_remove` | shadowlru.cpp:34 | `remove` passes over the newest object |
| `ramshield_unset` | lsm-sim.cpp:705 | `ramshield` is started with blocks of 0 bytes, which take nothing: once DRAM is full, requests end in `assert(0)` |

In `ramshield_unset` all objects have two bytes, DRAM holds two of them and flash
two blocks of one object each.  When the third object comes, an object of DRAM
could move into a block if a block could hold it: with `stat_block_size = 2` in
place of 0 the same instance never aborts.

Other observations that no run is about: option `-m` hands `add_app` bytes where
it takes a percentage (lsm-sim.cpp:642-660), so a reservation may exceed an
application's memory, which is why `MinMemGuarantee` has two cases; `fifo` loses
the hash entry of a resized object when its old copy leaves the queue
(fifo.cpp:61), so its `Contents` are what the hash table leads to; the loop of
`lru::remove` is inverted, but no caller looks at its result; `lru.cpp:163` reads
a list element after erasing it; the queues of `flash_cache_lruk` keep the size
that follows from the default DRAM size, whatever `-D` says, and its credit check
is commented out.

Of the flash policies: with DRAM for a single object, `ram_shield_fifo` and
`ram_shield_sel` take a block back to DRAM and allocate an empty one for ever
(ram_shield_fifo.cpp:108-115); the counts of approved objects in the
machine-learning cache drift (lines 250-257); `ripq` asserts that something stays
cached when an object is replaced, which fails for the only one (ripq.cpp:205);
the reads after an end of lifetime are named in section 2.

Of the arbitration: no curve has a point at zero, and reading one there makes it
0 misses, so that an application with a share of one step gives it up first,
although lsc_multi.cpp:264 says "calculate who looses the least", and may be
taken below nothing; a limit below nothing wraps as a `size_t`, and the next
arbitration draws its curves until memory is exhausted (lines 213-226).  The
lower limits `L` are computed and not used.  Application ids are taken to be
1..n: `A[1]` takes the remainder of a surplus, `rand() % n + 1` is an id.  The tax
never leaves an application more than its reservation `min_mem`, whatever
`target_mem` is.

Of the slab queues: an object that is first in its class is not noted in
`slab_for_key`, so when its size changes it stays behind in the old class (this
and `shadow_remove` are why `Consistent` of `ShadowSlab` speaks of each class by
itself); `slabs_clsid` never uses the largest class of its table; `dump_util`
assumes as many pages as slab ids, which a class that shrank does not have.

## 6. Not modelled, and the plan

Not modelled for a reason: option parsing, trace reading and printing (I/O);
`replay` (compiled out); `slab` and `slab_multi` (their queues are
default-constructed `lru` objects whose `proc` dereferences a null pointer, so
nothing past the first request can be reached); how `mrc` estimates its curves
(floating point over sampled reuse times); the classifier itself (external); the
cleaning policies of `lsm` other than OLDEST_ITEM, the choosers and the other
four arbitrations of `lsc_multi`, which are never called.

What is left, in the order of its worth:

1. Proofs about `FlashSimulator`: `FlashIsEarned` first, from the books of its two
   clock policies, which are those of `flashcachelruk` with a ring; then
   `VirtualAhead`.
2. The books of `segment_util` and `shadowslab`, which would rid `BooksAgree` of
   its hypothesis but for `multi`.
3. `LscMulti` with `Arbitration` in place of stealing (`u_mrc`): need ratios that
   change between cleanings by whole shares.
