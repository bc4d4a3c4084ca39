# iCAT: verification of the NVMeVirt SSD model

This directory holds TLA+ models of the virtual NVMe device in
`src/nvmevirt_test`, the TLC configurations that check them on small instances,
and theorems proved with TLAPS. `PROJECT.json` says, definition by definition,
which source lines each one stands for; this file says what the parts are and
what the checks and the proofs show.

Paths without a directory (`conv_ftl.c`, `io.c`, ...) are under
`src/nvmevirt_test/`. Lines are those of this commit.

## 1. Inventory

The program is a Linux kernel module. A *dispatcher* thread (`main.c`,
`nvmev_dispatcher`) polls a virtual PCI device's registers and doorbells, takes
commands from the submission queues, asks a flash translation layer (FTL) *when*
each command would end, and hands the command with that target time to an
*I/O worker* thread, which moves the data and posts the completion once the time
has come. One of four FTLs is built in; the repository's own work, victim
selection for garbage collection (CAT, WATGC), is in the conventional one.

    host driver --- registers, doorbells, queues in memory ---+
        |                                                     |
        v                                                     ^
    dispatcher (main.c, pci.c, admin.c) --- command ---> FTL  | completion
        |                                   (target time)     | queue, interrupt
        +--- work entry, target time ---> I/O worker (io.c) --+

| Component | State | Operations | Interacts with | What is hard | What makes it correct |
|---|---|---|---|---|---|
| Conventional FTL (`conv_ftl.c`) | `maptbl`, `rmap`, page and line status, `lm` lists, two write pointers, `wfc` | `conv_write`, `conv_read`, `foreground_gc`, `do_gc` | victim queue, NAND timing, write buffer; runs in the dispatcher | GC in the middle of a write; lines taken while they are made; a failed GC is ignored | the mapping is right in every state; counts are true; lines never run out when over-provisioned |
| Flash geometry (`ssd.c`, `conv_ftl.c`) | `struct ppa`, `struct write_pointer` | `advance_write_pointer`, GC's walk | FTLs, NAND timing | nested counters with carries, in two orders | each page of a line is visited once; no block is erased before it is cleaned |
| Victim queue (`pqueue/`) | a binary heap, `line->pos` | insert, pop, remove, change priority | conventional FTL | `pos` is both slot and flag; removal from the middle | it is a priority set |
| CAT scoring (`conv_ftl.c`) | valid counts, line ages | `cat_fig7_line_is_better`, `fraction_cmp` | victim queue | 64-bit products, rounding, clocks | the choice is the order of the exact fractions |
| WATGC tuner (`conv_ftl.c`) | arms, phases, windows | `watgc_v2_on_gc`, `watgc_v2_observe` | conventional FTL, wall clock | long sequences of windows; settled / drift; discarded windows | it settles only on a confirmed arm, credits an arm with its own collections, starves none, and leaves every phase |
| I/O work queue (`io.c`) | `work_queue[]`, two index lists, flags | enqueue, sorted insert, worker pass, reclaim | dispatcher and worker, without a lock | every interleaving of two threads over a recycled pool | a request is finished once, not early, and never forgotten |
| Completion queues, interrupts (`io.c`, `pci.c`) | `cq_head`, `cq_tail`, `phase`, `interrupt_ready` | `__fill_cq_result`, `nvmev_proc_io_cq`, signalling | workers (two locks), dispatcher, host | a completion between test and clear; several workers | no lost interrupt; no unread entry overwritten |
| Data transfer (`io.c`, `dma.c`) | - | PRP walk, copy | storage, DMA engine | - | (bytes; not modelled) |
| Write buffer (`ssd.c`) | `size`, `remaining`, a lock | allocate, release, refill | FTLs, worker (`is_internal` requests) | given back later, by another thread, in another unit | what is taken comes back |
| NAND timing (`ssd.c`) | `next_lun_avail_time` of each LUN | `ssd_advance_nand`, `ssd_next_idle_time` | FTLs, channel model | commands scheduled ahead on many LUNs; reads gathered page by page | each page is transferred once; a flush waits for all |
| Channel model (`channel_model.c`) | a ring of credits per time slot | `chmodel_request` | NAND timing | the ring's head follows a clock that jumps | a slot is reset exactly once per turn |
| Dispatcher, doorbells (`main.c`, `io.c`) | `old_dbs`, `dbs` | `nvmev_proc_dbs`, `nvmev_proc_io_sq` | host | doorbells move during the batch; refused commands | each command taken once, in order |
| Controller registers (`pci.c`) | `old_bar`, `bar` | `nvmev_proc_bars` | host | one change noticed per call | the controller follows the host's writes |
| Admin commands (`admin.c`) | queues | create / delete SQ and CQ, ... | dispatcher, workers | a queue deleted under a worker | - |
| ZNS FTL (`zns_*.c`) | zone descriptors, resources, write pointers | write, append, zone management | write buffer, NAND timing | resources of zones; error paths | resources match zone states |
| Key-value FTL (`kv_ftl.c`) | hash table with chains, iterators | store, retrieve, exist, delete, iterate | allocators | chains through recycled slots; workers without a lock; stores of another length; iterators over a changing table | a value read is the last one stored; chains end; an iterator misses no key that stays |
| Allocators (`bitmap.c`, `append_only.c`) | a bitmap, an offset | allocate | key-value FTL | next fit at the end | no block handed out twice |
| Simple FTL (`simple_ftl.c`) | I/O units' times | read, write, flush | - | - | - |
| PCI device, module (`pci.c`, `main.c`) | configuration space | set-up | kernel | - | - |
| Scripts, results | - | - | - | - | - |

Which target is built is chosen in `Kbuild`; the default is the conventional SSD
(`SAMSUNG_970PRO`) with the GREEDY policy. Notes from reading the code that
concern no model: `conv_ftl.h:10` says that online learning is the default, while
`Kbuild` builds GREEDY unless told otherwise; `clean_one_block` has no caller.

## 2. Modules

| Module | Models | Role |
|---|---|---|
| `PageStore` | what an FTL promises | abstract specification |
| `ConvFtl` | `conv_write`, GC, write credits (`conv_ftl.c`) | the core |
| `ConvFtlInv` | - | the inductive invariants `MappingInv` and `SpaceInv` |
| `ConvFtlProofs` | - | the mapping, the refinement of `PageStore`, and the space under `Overprovisioned` |
| `FlashGeometry` | write pointer and GC walk by channel, LUN and page | gives `ConvFtl` its `GcWalk` and `EraseAt` |
| `VictimScan` | `select_victim_line` with the CAT score (`conv_ftl.c`) | which victim |
| `Collection`, `MCCollection` | `do_gc`: selection, then the walk | composes the two |
| `CollectionProofs` | - | the choice of the victim and the orders of the walks, for any geometry; the heap of victims |
| `WatgcTuner`, `MCWatgcTuner` | `watgc_v2_on_gc` and what it calls (`conv_ftl.c`) | the tuner |
| `WatgcTunerProofs` | - | the safety of the tuner |
| `ChannelWindow` | what a channel promises of its bandwidth | abstract specification |
| `ChannelRing` | `chmodel_request` (`channel_model.c`) | the ring of credits, as operators |
| `NandTime`, `MCNandTime` | `ssd_advance_nand`, `conv_read`, `conv_flush`, the timing of writes and GC | when commands are done |
| `MCConvFtl` | - | instances for TLC |
| `VictimSet` | what the FTL expects of its queue of victims | abstract specification |
| `VictimQueue`, `MCVictimQueue` | `pqueue.c` as used by `conv_ftl.c` | the heap |
| `CommandLife` | what the host and the buffer expect of a worker | abstract specification |
| `WorkQueue`, `MCWorkQueue` | the work queue of `io.c`, store by store | the concurrent part |
| `WorkQueueProofs` | - | the lists, their order, and the refinement of `CommandLife` under light load |
| `CommandPath` | what the host expects of the queues | abstract specification |
| `IoQueues`, `MCIoQueues` | doorbells, batches, completion queues, interrupts (`io.c`, `main.c`) | the way of a command |
| `IoQueuesProofs` | - | types, interrupts, and the refinement of `CommandPath`; the times of `NandTime` |
| `ZoneLife` | what a zoned namespace promises of a zone | abstract specification |
| `ZnsZones` | zones, their resources and write buffers (`zns_*.c`, `ssd.c`) | the zoned FTL |
| `ZnsZonesProofs` | - | the resource counts, and the refinement of `ZoneLife` |
| `KvMap` | what a key-value namespace promises | abstract specification |
| `KvTable` | the hash table, the commands and both allocators (`kv_ftl.c`, `bitmap.c`, `append_only.c`) | the key-value FTL |
| `KvIterators`, `MCKvTable` | iterators over that table | extends `KvTable` |
| `KvTableProofs` | - | that chains end, that iterators are complete, and the refinement of `KvMap` |
| `Arithmetic` | - | lemmas about quotients, remainders and products that the proofs share |

How they meet: `FlashGeometry` gives `ConvFtl` its walks (through `MCConvFtl`);
`Collection` puts the selection of a victim before the walk; `NandTime` keeps its LUNs'
channels and the link as `ChannelRing`s and shows that they implement `ChannelWindow`;
`VictimQueue` implements the set `ConvFtl` keeps; `WorkQueue` is the inside of
`IoQueues`' step from taken to completed (`IoQueues` lets a worker take its commands
in any order, which is more than the sorted queue does); the releases of buffer space
in `ZnsZones` are `WorkQueue`'s internal requests. Apart from `Collection` and
`NandTime` these joins are not runs of their own.

### 2.1 ConvFtl

One partition of the FTL. The dispatcher runs a page write to its end before the
next, so the state has one program counter `pc`; GC is cut into its single page
copies and block erases so that the mapping can be looked at half way through.

| Code | Model |
|---|---|
| `maptbl[lpn]`, `rmap[pgidx]` | `maptbl`, `rmap` |
| `pg->status` | `status`, by `<<line, offset>>` |
| `line->vpc`, `line->ipc` | `vpc`, `ipc` |
| `lm->free_line_list`, `free_line_cnt`, `full_line_list` | the same, as sets |
| `lm->victim_line_pq` | the set `victims` |
| `conv_ftl->wp`, `conv_ftl->gc_wp` | `wp["USER_IO"]`, `wp["GC_IO"]` |
| `wfc.write_credits`, `wfc.credits_to_refill` | the same |
| one iteration of `conv_write`'s loop | `HostWriteFresh` or `HostOverwrite`, then `HostProgram`, then perhaps a refill |
| `check_and_refill_write_credit`, `foreground_gc` | `RefillWithoutGc`, `RefillNoVictim`, or `GcSelect` ... `GcFinish` |
| `do_gc` | `GcSelect`, then `GcSkip` / `GcCopy` for each page, `GcErase` for each block, `GcFinish` |

An offset within a line counts its pages in write order. In which order GC visits
them, and after which visit a block is erased, are the constants `GcWalk` and
`EraseAt`: the theorems hold for every walk that visits each page once and erases
none before its visit (`WalkAssumption`), and the runs take the walks that
`FlashGeometry` derives from the code's loops, so TLC evaluates the assumption for
them. A CAT policy may choose any victim (`Greedy = FALSE`), so what holds here
holds for every score and every state of the tuner.

A dispatcher given a NULL line dies in `advance_write_pointer` (it dereferences
the result of `get_next_free_line`): every action has the guard `Alive`.

Not in this module: block counters (`blk->vpc`, ...) and statistics, which nothing
decides by; times and `conv_read`, which are in `NandTime`; the range checks of
`conv_read` and `conv_write`, which compare with the physical pages of a partition
(`conv_ftl.c:1602`): the model's host uses the namespace's logical pages only, and a command
behind its end, which a driver does not send, would find no spare lines set aside for it.

### 2.2 FlashGeometry, VictimScan, Collection

`FlashGeometry`: the counters of `struct write_pointer` and the three nested loops of
`do_gc` step by step over one line, compared with closed forms (`WriteOffset`, `GcVisit`,
`EraseVisit`). `MCConvFtl` builds `GcWalk` and `EraseAt` from the closed forms, and
the run `collection` shows that they are the loops' order. One plane per LUN and one
block of the line on each LUN, as `ssd_config.h` has it.

`VictimScan`: the scan over all lines for the least `vpc / (ipc * age)`. The age of a line is
a value from a staircase of 2, 4, 7 or 10 steps that the installed arm describes
(`watgc_v2_decode`, `watgc_v2_set_arm`). `watgc_v2_fraction_cmp` compares cross products if they
fit the machine's width, and else divides numerators and denominators like Euclid, the order
reversed at each round; `Divide` is one round. The width is the constant `Top`.

`Collection` is `do_gc`: the selection, then the walk over the victim.

### 2.3 VictimQueue

`pqueue_insert`, `pqueue_pop`, `pqueue_remove`, `pqueue_change_priority` with
`bubble_up`, `percolate_down`, `maxchild` as recursive functions, and the position
callbacks. `line->pos` doubles as the flag that a line is a candidate, and callers
clear it; the model includes what they do. The implementation relation to `VictimSet`
is what lets `ConvFtl` use a set of victims.

### 2.4 WorkQueue

Two threads, no lock: the dispatcher links and unlinks entries, the worker sets
`is_completed` and moves its clock, each reads what the other writes. A step is a
read or write the other thread can tell apart:

- the stores that fill an entry before the `mb()` may be seen in any order, in parts
  (`Stores <- InThree`) or at once (`AtOnce`);
- the linking stores are seen in program order: they may alias, so the compiler
  keeps it, and x86 keeps the order of stores;
- the search of `__insert_req_sorted` is one step per entry, since `latest_nsecs`
  moves under it; the reclaim scan is one step, since the flags it reads stay set
  once they are, so a scan that takes longer finds what an immediate one at its last
  read of each flag finds, or less;
- a worker pass re-reads `w->next` after everything else, so it may follow links
  that changed since.

Each submission queue is bound to one worker (`CONFIG_NVMEV_IO_WORKER_BY_SQ` in
`nvmev.h`), so one worker and the dispatcher are the whole system for a
queue; workers meet at completion queues, which are `IoQueues`' subject.

Posting a completion or releasing buffer space is one step (`Post`), moving the data
another (`Copy`). A tag is a command identifier, or an internal request's
buffer space; it is reused when finished.

### 2.5 IoQueues

| Code | Model |
|---|---|
| `sq_entry(i)`, `cq_entry(i)` | `sq[q][i]`, `cq[k][i]` |
| `nvmev_vdev->dbs`, `old_dbs` | `dbs`, `oldDbs` |
| `nvmev_proc_dbs` seeing a doorbell, `nvmev_proc_io_sq` counting the commands | `BeginBatch` |
| one turn of its loop | `Take`, or `Refuse` when the FTL returns false |
| a worker's pass: `__do_perform_io`, the test of `nsecs_target` | `Copy`, `Due` |
| `__fill_cq_result` under `entry_lock` | `Publish` (up to the status word), `StoreResult`, `Release` |
| the loop over completion queues: test, clear, signal | `TestReady`, `ClearReady`, `Signal` |

The host is external: it fills a submission queue, rings, reads completions in its
interrupt handler by the phase bit, and reuses an identifier when it has read the
completion. It keeps fewer commands in flight than its queues have entries
(`HostAssumption`): the device never looks at the other end of a queue. One worker looks
after a completion queue (`__get_io_worker(qid)`), so `irq_lock` is always free when
it is tried, and the model leaves it out; entries are filled by the workers of
all its submission queues, which is what `entry_lock` is for. Not in the model:
`nvmev_proc_io_cq` (statistics), queues with interrupts off, a work queue that is full
(`WorkQueue` has it).

### 2.6 ZnsZones

| Code | Model |
|---|---|
| `zone_descs[z].state`, `wp`, `zrwav` | `state`, `wp`, `zrwav` |
| `res_infos[type].acquired_cnt` | `acquired` |
| `zone_write_buffer[z]` or `ssd->write_buffer`, `zrwa_buffer[z]` | `wbuf`, `zbuf`: what remains of them |
| `schedule_internal_operation`, and its end in the worker | `Schedule`, `Release` |
| `__zmgmt_send_*`, `zns_zmgmt_send` | `CloseZone` ... `FlushZrwa`, `ManageOne` |
| `zns_zmgmt_send` with `select_all` | `BeginSweep`, `SweepZone`: releases come in between |
| `__zns_write` | `WriteZone`, `WriteFails` |
| `__zns_write_zrwa` | `WriteZrwa`, `WriteZrwaLater` (return false), `WriteZrwaDies` |

The dispatcher runs a command to its end, but the workers give buffer space back at any
time, in the middle of a select-all too. `__init_resource` lets every zone be
active, open and random-write, so no count is ever at its limit; the theorems do not
depend on that. Where the dispatcher would die, on an `NVMEV_ASSERT` (a `BUG_ON`)
or a division by zero, `halted` is set and it does nothing more. `ASSERT` is not
`NVMEV_ASSERT`: `nvmev.h:82` defines it as nothing, so `release_zone_resource` would
wrap a count around, and a zone with a random write area that is filled by
`__increase_write_ptr` keeps its random-write resource for good (`zns_read_write.c:33`);
`ResourcesTrue` says `>=` of that count for this reason.

`lost` is a history variable: buffer space that was taken and will not come
back. A write that fails its checks has taken its space before them
(`zns_read_write.c:105`), and a zone reset in the middle of a one-shot page never programs
that page. `BufferAccounted` says that this is all that goes astray. With
`ZONE_WB_SIZE` of 10 one-shot pages (`WD_ZN540`) enough of either leaves a zone that takes
no more writes until the module is loaded again.

### 2.7 KvTable, KvIterators

| Code | Model |
|---|---|
| `kv_mapping_table.mapping_table[s]`: key, `mem_offset`, length; `next_slot` | `entry[s]`, `next[s]` |
| `storage_mapped` | `memory`, by units that hold a token of the value |
| the static variables of `bitmap.c`, `append_only.c` | `alloc` |
| a worker in `kv_perform_nvme_io_cmd` | `op[w]`: the command and the slot it looks at |
| the loops of `get_mapping_entry`, `update_mapping_entry`, `delete_mapping_entry` | `Walk`, one slot in a step |
| `__do_perform_kv_io` | `Hit`, `Exists`, `NotExist`, `Allocate`, `Copy`, `Read`, `Update`, `Erase` |
| `new_mapping_entry`, `find_next_slot`, `chain_mapping` | `FindTail`, `Probe`, `Fill`, `Link` |
| `iter_handle[]`, `kv_iter_open`, `kv_iter_read`, `kv_iter_close` | `iter`, `Open`, `ReadIter`, `Close` |

Key-value commands are executed by the I/O workers, several at a time and without a lock around
the table, so every access to a slot is a step. What the namespace promises is little, and
`KvMap` says how little: deleting a key ends the chain at its slot (`kv_ftl.c:482`), so keys
behind it are no longer found (`lost`) until they are stored again. But what is read is what was
stored last, and nothing but a delete loses a key. A lost key that is stored again may be filled into
the very slot where its cut chain ends, and so be found before `chain_mapping` links it. It counts
as lost until then (`Linking`), since its store is not done.

A retrieve brings as much of the value as the host's buffer holds (`Beginning`).

What the code does not check is left to the host, by two constants. A host of `KeepsRoom` stores
no more than table and storage hold (`Room`: a full table would be searched for ever, and an
exhausted bitmap answers with an offset behind its end). One of `KeepsSize` overwrites a value
with one of another length only where the code supports it (`SameRoom`): by a store, not a batch
(`kv_ftl.c:684` leaves the length), from a small length to a small one (that of a large
value is not updated), and under the append-only allocator, the default, to no longer one
(`kv_ftl.c:533`: a longer value is written over its neighbour). Any other host may store anything at any
time. `ImplementsKvMap` holds of a host of both only, and `TableImplementsMap` names them as hypotheses; `CommandsEnd`
needs a free slot; that chains end and iterators are complete is proved for any host. The model's storage
ends with the device's: what is written behind it is not in the model. Nothing
frees storage. Keys have one length (the code compares as many bytes as the command's key has).
Not in the model: handles beyond those opened (`kv_iter_open` with none left returns handle 1;
`kv_init_namespace` initialises 16 of 17).

### 2.8 WatgcTuner

The record `t` is `struct watgc_v2_tuner`, an action is one call of `watgc_v2_on_gc`; `ran` and
`seen` are history variables for the properties. The tuner measures an arm in windows of
collections; what a window shows is any of a few write amplifications. Left open: the discounted
mean of an arm moves to anything between what it was and the sample; the score of the search
(UCB) may favour any arm; a window whose numbers are out of range may be discarded at any
time. The fixed-point logarithm, square root and quotients are not modelled: the mean of an arm
that was not observed stays as it is, while `watgc_v2_discount` truncates sum and count
(`conv_ftl.c:170`), so that their quotient may move by rounding, and counters saturate
(`conv_ftl.c:349`); the best arm is determined again in each window from what the means are then. The clock says
at any time that a window has lasted too long, or not.

### 2.9 NandTime, ChannelRing

| Code | Model |
|---|---|
| `lun->next_lun_avail_time` | `avail` |
| `perf_model` of a channel, of the PCIe link | `ring` |
| `ssd_advance_nand` | `Issue` (up to the first transfer), `Transfer`, `Dma`, `Completed` |
| `ssd_advance_pcie`, `ssd_advance_write_buffer` | `Dma`, `BeginWrite` |
| `conv_read`, one turn of the inner loop | `SkipPage`, `GatherPage`, `OtherPage`; `PartRead` after it |
| the NAND commands of `conv_write` and `do_gc` | `WriteStep`: any of those they issue |
| `conv_flush`, `ssd_next_idle_time` | `Flush` |

All of this is computed ahead: nothing waits, and time is only the clock that each step reads,
which may jump between any two readings (`Tick`). A command in the conventional FTL is cut into
its accesses to LUNs, channels and the link. `WriteStep` allows any sequence of programs, reads,
erases and NOPs; which pages they are for is `ConvFtl`'s subject. `ChannelRing` has the ring
of credits with its head, its two `memset`s at the wrap and its valid length; `ChannelWindow`
has an unbounded time line of slots and takes the first credits that are left. Not in
the model: the cell types (the latency of a read depends on the page; a constant here), the 32
bits of the slot numbers (`cur_time_offs`, `request_time_offs`: a gap of 4.7 hours between two requests
of a channel) and the 8 bits of a slot's credits (`channel_model.h:12`), which are unbounded here, the commands of
the ZNS, key-value and simple FTLs. The firmware's latency of a read depends on its bytes
(`conv_ftl.c:1514`), the model's on its pages: where both latencies are possible for so many pages, one more
than the partitions, either is taken (`FirmwareLats`). The target times of reads and writes are in the model (`latest`,
`done`), but no property is about their values.

## 3. Runs

| Run | Instance | Shows |
|---|---|---|
| `conv_cat` | 6 lines of 2 pages, 3 logical pages, any victim | all invariants of an over-provisioned partition |
| `conv_live` | 4 lines of 3 pages in one block, 2 logical pages, any victim, fair | no orphan pages; the FTL implements `PageStore`; every write ends, also when GC finds no victim |
| `collection` | 3 channels, 2 LUNs, 2 wordlines of 4 pages, flash pages of 2; up to 3 candidates, 6 arms, numbers of 14 bits | the orders of writing, cleaning and erasing; the victim is the one the CAT score asks for |
| `victim_queue` | 6 lines, counts 0..2 | the heap is a heap, `pos` is true (`HeapSound`), it implements `VictimSet` |
| `workqueue_load` | 4 entries, 2 tags, both kinds, stores in three parts, at most 2 queued, fair | below the load bound: only queued entries are acted on, the queue implements `CommandLife`, every request that was queued is finished |
| `workqueue_full` | 4 entries, 2 tags, commands, no load bound | the lists stay disjoint, whole and in order, whatever the worker does |
| `ioqueues_shared` | 2 submission queues of 2 entries, 2 workers, one completion queue of 3 | entries are filled one at a time; no interrupt is lost; the queues implement `CommandPath` |
| `ioqueues_live` | one queue of each kind with 3 entries, 2 commands, fair | every command ends, across all wraps |
| `zns_zones` | 2 zones of 3 blocks, one-shot pages of 2, one write buffer of 3 | resource counts, buffer space, `ZoneLife` |
| `kv_table` | 4 slots, 3 keys that collide and overflow, values of 1 to 3 units, bitmaps, one worker, an iterator, deletes, fair | the table implements `KvMap`; chains and commands end; the iterator is complete |
| `watgc` | 3 arms, 3 write amplifications, thresholds of 1 to 4, fair | windows, settling, staleness and phases of the tuner |
| `nand_time` | 3 LUNs on 2 channels in 2 partitions, rings of 3 slots with 2 credits, 5 logical pages | reads, flushes, and the rings as `ChannelWindow` |

In `victim_queue` the rigid variable `greedy` of `VictimSet` and `VictimQueue` is either
value for good, so the run goes through both policies.

### Bounds, and why they are enough

- *ConvFtl*. The threshold is the code's (2 lines). Six lines give two open lines,
  the two lines of the threshold, and two that can be full, be candidates or be
  collected at once. Two pages per line is the least at which a line is open,
  closed with and without invalid pages, and partly valid; the three-page line of
  one block has copied pages that stay valid until the block is erased. Logical
  pages are overwritten repeatedly, so the runs go through any number of
  collections. The proofs remove these bounds.
- *Collection*. More than one of everything, channels and LUNs different, so that
  no stride can be taken for another. Numbers of 14 bits make cross products of a line of 48 pages
  and ages of two digits overflow, so both ways of comparing are taken, with several rounds of
  division. The 6 arms have every number of steps, every scale and every ratio.
  6 valid pages are the most a candidate may have when nothing forces the collection. Three lines: the best so
  far is replaced, and kept, and lines are skipped in between.
- *VictimQueue*. Six lines: a tree of three levels with an incomplete last one, so
  removals from the middle that must rise exist. Counts 0..2 give less, equal and more.
- *WorkQueue*. Two tags suffice for two requests out of order and for the reuse of an
  entry while its predecessor is still linked; four entries let one stay in the free
  list, one be filled and two be queued. `MaxTime = 1` makes a request due or not due
  at arrival. `MaxQueued` bounds the load: with half of the entries queued at most, the
  dispatcher cannot go round the free list while the worker stands on an entry
  (the code has no such bound; `NR_MAX_PARALLEL_IO` is 16384). `InThree` lets the stores that
  fill an entry be seen in three parts in any order: the flag the worker
  tests first, what it acts by, and what tells it how; a worker that stands on the
  entry reads these apart.
- *IoQueues*. Queues of the least size (2 entries, one command) go round at every
  command; 3 entries with 2 commands have batches of one and two, across the wrap
  and not, and completions out of order. Two workers with one completion queue
  meet at its lock. Two handlers or dispatchers do not exist.
- *ZnsZones*. Two zones for select-all and for zones that share a buffer; 3 blocks with
  one-shot pages of 2 make the last page of a zone a short one; a buffer of 3 cannot
  hold two writes of 2 (`MaxLen`), so commands wait. A random write area of one block, flush
  groups of one and a buffer of 2 let an area be filled, committed by a later
  write or a flush, refilled by a reset while releases are on their way, and run out.
  `MaxZrwaRoom` bounds that last growth: the code's `remaining` may rise above `size`
  without limit. `SecsPerPg = 1`: writes are of whole pages, because a write of less into
  the last one-shot page of a zone gives back a whole one-shot page each time
  (`zns_read_write.c:187`), and `BufferAccounted` does not hold of those.
- *KvTable*. Four slots and three keys, two with the same slot and one whose slot is where they
  overflow: chains mix, a search wraps round the array, a freed slot is taken by another chain.
  Values of a unit, of two (small ones of different length) and three (large ones); buffers of
  one unit and three, so that a value is read in part and whole. The bitmap allocator, since it
  distinguishes small values from large ones; the append-only one is in the theorem. A host of `KeepsRoom` and `KeepsSize`
  (without either TLC finds `ImplementsKvMap` violated or a read behind the storage, as section 2.7 says). One
  worker: with more, and deletes, two can take the same slot; several workers without deletes are
  the theorem `ChainsAlwaysEnd`. The command in execution, the iterator and the host still
  interleave. Storage is never freed, so it bounds the insertions: three small ones and a large one.
  A fifth would be needed here for a lost key to be filled into the slot its own chain ends in
  (section 2.7), and the states are then too many for a run; `TableImplementsMap` has this case, as
  any number of insertions.
- *WatgcTuner*. Three arms are an incumbent, a challenger and one that must not starve. Write
  amplifications differ by less and by more than the tolerance and the drift share (the code's, in
  1/65536). Windows are of one to two collections, and counts that must be reached are 2 to 4 (the
  code: up to hundreds), small enough that every counter comes to its end and is reset many times.
- *NandTime*. Rings of three slots of 2 units of time; in the 9 units (`MaxTime`) the head moves by up to
  four slots, so it passes the end and comes round (any number of rounds is `TimeImplementsWindow`). The
  clock jumps by more than a slot; a request fits in a slot, spills, or finds no credits. Three
  host commands or NAND commands (`MaxCommands`). The three mappings have flash
  pages with several logical pages, apart and together, and holes, at the beginning of a
  partition too.
- *VIEW*. `MCKvTable!LiveView` leaves out storage nobody points to; `MCWatgcTuner!RelativeView`
  takes window numbers relative to the present one, which is all the code compares;
  `MCNandTime!StepView` leaves out what no step reads: the last request and answer of a ring, the
  time of what is done. Properties about these are checked on each step as it is taken.
  `MCWorkQueue!LiveView` leaves out what is in entries that are neither queued nor
  in the dispatcher's hand; nobody reads that as long as the worker acts on queued entries
  only, which the run that uses the view checks (`ActsOnQueued`). `MCIoQueues!LiveView`
  leaves out submission entries already taken and all but the phase bit of
  completion entries already read: no action reads them.
- *Symmetry* is over lines, logical pages and tags of one queue; no entry is symmetric, and
  the runs with liveness properties use none.

### Deadlock

Checked in every run but four. `collection` fills and collects one line and
ends; in `workqueue_full` every request may have been dropped; in
`zns_zones` the dispatcher may be dead, or every buffer lost, as section 2.6 says; `nand_time` ends
when its commands are spent and the clock is at its bound.

### Fairness

- `ConvFtl!FairSpec`: weak fairness of the dispatcher's steps of a write that has begun.
  It is one kernel thread that loops for ever (`nvmev_dispatcher` yields with
  `cond_resched` and, when idle, sleeps for a tick) and never waits inside a write. Host writes are not fair: the host may stop.
- `IoQueues!FairSpec`: the threads and the host's handler run (weak fairness). Strong
  fairness where a thread comes by again and again but may find a step disabled in
  between: the dispatcher looks at every doorbell in turn; the FTL takes a command it refused at
  last, since buffer space is given back (of a zoned namespace this needs that
  no space was lost, section 2.6); a worker's pass comes to every command and every
  completion queue, and each command's time comes; `entry_lock` is a ticket lock. Submissions are
  not fair, ringing the doorbell after one is.
- `KvTable`: each worker goes on with the command it executes (weak fairness, a kernel thread in a
  loop) and the host leaves a slot free (`KeepsRoom`), or the search for one would not end. New commands are not fair.
- `WatgcTuner!FairSpec`: collections go on (weak fairness), since the tuner counts collections and has
  no other time. What the host writes between them is not fair: it may write nothing for ever.
- `WorkQueue!FairSpec`: weak fairness of each thread's steps (both loop for ever), and
  strong fairness of a clock reading later than the last one: time moves on, although
  any single reading may return the same nanosecond. Arrivals are not fair.

## 4. Proofs

TLAPS (SMT, Zenon, PTL) checks every leaf. Every safety property of a run and every refinement is a
theorem too, for every value of the constants. Model-checked only:

- liveness (`WriteEnds`, `Served`, `EveryCommandEnds`, `PhasesEnd`, `CommandsEnd`): out of the
  prover's reach.

Where a proof needs induction over numbers (sums, quotients, the length of a list, the values of
a recursive function) it takes a least counterexample, by `NatMin` of `Arithmetic`.

| Theorem | Module | Says |
|---|---|---|
| `MappingInvariant` | `ConvFtlProofs` | `Spec => []MappingInv` |
| `TypeCorrect`, `MappingAlwaysSound`, `NoOrphanPages`, `EveryLineHasOneHome`, `CountsAreTrue`, `AssertionsNeverFire` | `ConvFtlProofs` | the run's invariants, for any number of lines, pages, logical pages, any walk and any policy |
| `FtlImplementsPageStore` | `ConvFtlProofs` | `Spec => ImplementsPageStore` |
| `SpaceInvariant` | `ConvFtlProofs` | `Overprovisioned => (Spec => []SpaceInv)` |
| `LinesNeverRunOut`, `CreditsAlwaysBacked`, `VictimAlwaysFound` | `ConvFtlProofs` | under `Overprovisioned` |
| `PicksBestAlways`, `NotDominatedAlways` | `CollectionProofs` | the victim has the least exact quotient, for any width of the machine's numbers, lines, arms and ages |
| `HeapAlwaysSound` | `CollectionProofs` | `QueueSpec => []HeapSound`, for any lines and priorities |
| `HeapImplementsVictimSet` | `CollectionProofs` | `QueueSpec => ImplementsVictimSet` |
| `VisitsInOrderAlways`, `EraseAfterCleanAlways` | `CollectionProofs` | the orders of writing, cleaning and erasing, for any channels, LUNs, wordlines and flash pages |
| `MeasuresOneArmAlways`, `SettledIsConfirmedAlways`, `BestNearLeastAlways`, `NoArmStarvesAlways` | `WatgcTunerProofs` | the tuner's safety, for any number of arms, windows and thresholds |
| `ListsAlwaysSound`, `WaitingAlwaysInOrder` | `WorkQueueProofs` | the lists of the work queue and their order, for any number of entries, load and visibility of the stores |
| `ActsOnQueuedAlways`, `QueueImplementsLife` | `WorkQueueProofs` | `LightLoad => (Spec => []ActsOnQueued)`, and `ImplementsCommandLife` |
| `QueueTypes` | `IoQueuesProofs` | the indices of the queues stay in range, across every wrap |
| `InterruptsNotLost` | `IoQueuesProofs` | `Spec => []NoLostInterrupt`, for any number of queues, workers and commands |
| `QueuesImplementPath` | `IoQueuesProofs` | `Spec => ImplementsCommandPath`, for any number of queues, workers and commands |
| `ReadsAlwaysOnce`, `FlushAlwaysLast` | `IoQueuesProofs` | reads and flushes of the conventional FTL, for any partitions, LUNs, mapping and jumps of the clock |
| `TimeImplementsWindow` | `IoQueuesProofs` | `TimeSpec => ImplementsWindow`, for any length of ring, credits and requests |
| `ResourcesAlwaysTrue` | `ZnsZonesProofs` | `Spec => []ResourcesTrue`, for any zones |
| `ZonesImplementLife` | `ZnsZonesProofs` | `Spec => ImplementsZoneLife`, for any zones and flush groups |
| `BufferAlwaysAccounted` | `ZnsZonesProofs` | `WholePages => (Spec => []BufferAccounted)`, for any zones, shared buffers or one each, and one-shot pages |
| `ChainsAlwaysEnd` | `KvTableProofs` | `Calm => (Spec => []ChainsEnd)`, for any table, keys, hash, allocator and workers |
| `IterCompleteAlways` | `KvTableProofs` | `Alone => (SpecWithIters => []IterComplete)`, for any table, keys, prefixes and iterators |
| `TableImplementsMap` | `KvTableProofs` | `Alone /\ Fits /\ KeepsRoom /\ KeepsSize => (SpecWithIters => ImplementsKvMap)`, for any table, keys, hash, values and buffers, and both allocators |

**Assumptions.** `LinesAssumption` (finitely many lines, more than the threshold plus
one; `conv_init_params` and the namespace size give thousands), `LpnAssumption`,
`PolicyAssumption` (the threshold is at least 2), `WalkAssumption`; all are evaluated by
TLC on each instance. `Overprovisioned` is a hypothesis of the space theorems only:
fewer logical pages than the lines beyond the threshold and the two open ones hold.

`Calm` is the hypothesis of `ChainsAlwaysEnd`: the host deletes no keys, or there is one
worker. `Alone`, of `IterCompleteAlways` and `TableImplementsMap`, is that there is one worker (a module given two CPUs):
two may store into the same free slot, and a key is lost. The latter has three more hypotheses, all about
the host, none checked by the code. `Fits`: no value is longer than what the allocator gives a large one
(`LARGE_LENGTH`); a longer one overwrites the next. `KeepsRoom` and `KeepsSize` (section 2.7): without the first
an area is handed out that is not there or not free; without the second a value is written over its
neighbour, or is read with the length of an older one. `ChainsAlwaysEnd` and `IterCompleteAlways`
hold of any host. `KvAssumption` is that the table has a
slot, hashes are slots, values are not empty, and `NoValue` is none of them.

`QueuesAssumption` is that queues have at least two entries and belong to existing queues
(the admin commands create them so), `HostAssumption` the bound on the host above,
`ZnsAssumption` that sizes are positive, pages divide zones, a flush group is not larger than
the area, and a write not larger than a buffer. `WholePages`, of `BufferAlwaysAccounted`, is
that a write unit is whole flash pages (`WRITE_UNIT_SIZE` is `ONESHOT_PAGE_SIZE` at
`ssd_config.h:139`); of the configurations that write single blocks the property is false (section 3).

`TunerAssumption` is that there are two arms at least, that thresholds are positive, and that more
than one stable window is asked for (`WATGC_V2_STABLE_WINDOWS`; with 1 the window
that completes the coverage would settle the tuner on an arm that no second window confirmed).
`ScanAssumption` and `GeometryAssumption` give the ranges of counts, and that flash
pages divide a one-shot page; `IterAssumption` says that an iterator's prefix stands for a set
of keys. `RingAssumption` and `TimeAssumption` say that the ring of
credits, a page and a write are not empty, that latencies and steps of the clock are natural numbers,
and that there are finitely many LUNs, each with a channel and a partition. `LightLoad`, of two theorems about the work queue, is that at most half of its entries are
queued at once; `workqueue_load` is such an instance, and section 6 has what happens beyond.

**Why `MappingInv`.** `MappingSound` alone is not inductive: that a GC copy lands on the
right logical page needs the reverse mapping of every valid page (`NoOrphanPage`), which
pages of a line are free so that a program never hits a used one (`ShapeInv`), which
needs that a line is in one place (`OneHome`), which needs the counts that decide full
or candidate (`CountInv`). While a victim is collected its pages already visited are
stale: `IsStale` excuses them from the reverse mapping, and `ControlInv` ties
the cursor to the program counter. One lemma per action carries each part over.

**Why `SpaceInv`.** Credits are promises of pages. Their refill is the victim's *invalid*
count, granted after the collection. During a collection the pages still to copy come
out of the reserve (the threshold's lines and two pages), and the erased line pays them
back with the promised credits on top: `FreePages + vpc[victim] - |Remaining|` never
falls under the reserve. That a victim exists when GC must run is counting: lines that
are closed and have no invalid page hold only mapped pages, and `Overprovisioned` says
there are too few logical pages to fill them all.

**`NoLostInterrupt`** is inductive with the type invariant, queue by queue. `Announced(k)`
is its conclusion for queue `k`; a step that leaves the queue's entries, its reader and the
workers at it alone keeps it (lemma `Kept`), and the rest is one case for each step that does
not. The handler ends only when there is nothing to read, a worker that posts is at the queue
until it has raised `interrupt_ready`, and one that clears it is at the queue until it has
signalled: the order clear-then-signal is all it takes, and `SignalThenClear` breaks it.

**Why `ResourcesTrue` needs more.** A write to an empty zone that is flagged as random-write
would open it without making it active. `EmptyIsPlain` excludes that: only opening sets
`zrwav`, in an active zone, and only a reset empties a zone and clears it. The rest
is counting: each command changes one zone, and the counts by what that zone holds
(`HeldBy`, `Wanted`).

**Why `ZonesImplementLife` needs more.** A write must end in its zone: `__check_boundary_error`
compares zone numbers, so the proof needs that a block of a zone and one with the same number
lie in the same zone, and for a random write area that a commit rounded to flush groups never
exceeds the write itself. `WpInv` (a zone written to its end is full) makes every active
zone one with room.

**Why `ChainsEnd` needs more.** A worker links a slot it found free some steps ago. `After(s)` is
therefore where `s` leads or is about to lead: its `next_slot`, and the slots of workers that fill or
link behind `s`. A ring would need a slot that is linked to, and leads on, while it is
filled; `FreeIsEnd` says that nothing leads on from a free slot, and `Placed` that a worker's
tail is in use (this is where a delete by another worker would break it). Two workers may well
choose the same slot or the same tail, and lose a key by it; no ring comes of it.

**Why `BufferAccounted` needs more.** A sum over a set changes by what one summand does:
`Arithmetic` proves this for sums defined by a choice function, as `MapThenSumSet` is (`SumChanges`), and
`Balance` makes of it that a step which touches one zone need only balance that zone's part. A write
of `n` blocks takes `n`; what the programs it schedules will give back, and what the
incomplete page holds more, is `n` again (`WriteBalance`), provided the programs are counted from
the pages that were written: `AlignedInv`, the write pointer of a zone without a random write area
is at the start of a page. It also says that an empty zone is not written, so that
opening one with a random write area takes nothing out of the account.

**Why the tuner's properties need more.** `RanEnough` and `SeenEnough` tie the history variables
to the counters the tuner decides by; `Unbeaten` says that the best arm was compared with every arm
since either changed. That no arm starves is a bound on the time until it is visited:
`NoneForgotten` has one for each phase. While arms are filled they take turns (`Round`), while the
tuner searches or probes an arm waits for those visited longer ago (`Wait`), and in between for
the rest of the time to the next probe.

**The scan.** The comparison of quotients by continued division ends with the order of the exact
ones, since a round either decides or keeps it, reversed, for the remainders
(`CollectionProofs`, on top of the lemmas about division). `ScanInv` says that the best so
far is the least of the lines scanned; that no candidate dominates it is a comparison of products.

**The walks.** Both are counters in mixed radix. `FillInv` and `GcInv` say that the list of pages
visited is as long as the place of the next page in the closed form, and each page
in it at its own place; a carry from one counter into the next is one step of that place.
`ErasedBefore` adds the blocks that the last pass of the walk has erased.

**The heap.** Both loops of `pqueue.c` shift entries along a path of the tree and drop the moving
one at its end; `bubble_up` and `percolate_down` are such walks along a falling rank, which a recursive
function of the model computes (`WalkExists`). Two facts carry over a walk: the lines stay the same
and know their positions (`Placed`, `Settled`), and the order is that of a heap but for the place
of the moving entry, whose parent and children are in order with each other (`Risen`,
`Sunk`). A removal from the middle puts the last entry into the hole, which may have to go either way;
`Between` is what holds of it. That the queue never overflows is the pigeonhole principle,
and that the root is least (`RootLeast`) makes the victim the one `VictimSet` asks for.

**The credits.** `ChannelWindow` has slots by absolute time, the ring has entries behind a head. `Left`
reads the ring as such a window; `Forward`, with its two stretches before and after the wrap,
moves it by as many slots as time has passed (`MovedIs`), for which the invariant needs that entries
at or beyond the valid length are full (`Fresh`). A request takes credits until
nothing is wanted or the ring ends (`StepsAre`); what is taken adds up to what was wanted
(`SumTelescopes` of `Arithmetic`), from the first slots that have any (`ServedInOrder`).

**Reads and flushes.** `ReadCount`: what a read has issued for a flash page, and what it has gathered
for it, is the number of its pages that lie behind the page it is at (`Seen`): those of earlier parts,
and the earlier ones of this part. A part is a remainder, so the next page of it is
`NrParts` on, with none of it in between (`PartAgain`). `NandInv`: the latest end of a NAND command
is not after the time that some LUN is free again, since a later command of this LUN begins no earlier.

**Why `IterComplete` needs more.** `OwedInv`: a key an iterator owes is in a slot at or after its
position. That needs that a key which is stored stays in its slot until it is deleted
(`SlotKeeps`), and this that what the worker is about to do to a slot fits (`KeptInv`): it fills free
slots only, and updates the slot of its own key.

**Why `ImplementsKvMap` needs more.** A chain is followed one slot at a time, but there is no induction
along it here: `Closed(C)` says that no chain leaves the slots `C`, and what holds of every closed set
that contains a slot holds of the chain from there. So `Reach(s, k)` (a look-up of `k` comes to
`s`) and `Leads(s, k)` (one at `s` finds `k`) are stated, and carried over links, fills and
deletes, by giving the set that shows the contrary, with one slot more or less (`FilledTable`,
`ErasedTable`, `LinkedTable`). `MapInv` has three parts. `ChainInv`: of the slots a look-up of `k`
comes to at most one holds `k` (`Sole`: a stale second one would be read some day), and what the worker
knows at each step of its walk, until the slot it fills is the one its chain leads to. `SpaceInv`:
every slot in use has its own area of storage (`Reserved`, `Apart`), as large as the allocator gives,
and so has the value on its way (`Clear`); what is handed out is a beginning of each half
(`AllocInv`), which `bitmap_allocate`'s next fit keeps as nothing is given back. `KeepsRoom` is what
`Begin` needs for that: a value on its way finds an area (`Spare`); and `KeepsSize` is why an update leaves each
value in its area (`ResizedSmall`). `ValueInv`: a slot the
look-up of `k` comes to has `k`'s value in its area (`Right`).
Every step of the worker is then one of `KvMap`, its beginning or end, or a stutter.

**Why `ImplementsCommandPath` needs more.** `Once`: a command is in one place, so a
submission queue never holds more than its host has in flight, and neither queue overtakes itself
(the pigeonhole principle). `AheadInv` keeps dispatcher, doorbell and host in this order round the
queue, `LockInv` makes the lock's holder the one that posts, and `PhaseInv` says that the phase
bit is that of the present round before the end of a completion queue and that of the
last one after it, across each wrap, so that the host finds exactly what was posted.

**Why the work queue needs more.** All entries are in one order, a permutation (`Order`): the chain
just taken off the queue, the queue, the entry in hand, the free list. `Layout` reads the links
off it. Every step of the dispatcher moves a boundary, moves one entry, or turns the order
(the reclaimed chain goes to the end), and a proof of each such move keeps the links
in place. `InOrder` is for neighbours, and `Sought` says that the search has passed later targets
only. `ActsOnQueued` is a race: a worker that stands on a freed entry must have left before
the entry is handed out again. `CurrInv` counts: the entries in front of it in the free list,
with those live before them, are as many as the load allows, and each of them must be
completed by that same worker first. `LifeInv` relates the entries to what
`CommandLife` has of their commands.

## 5. Properties

- `MappingSound`: a mapped logical page is on a valid page that maps back to it, in the
  middle of a collection too.
- `NoOrphanPage`: a page GC would copy is its logical page's current one.
- `OneHome`: a line is on one list, under one write pointer, or in GC's hands.
- `CountsTrue`: the counts GC decides by are those of the pages.
- `NoLineExhaustion`, `CreditsBacked`, `VictimAvailable`: GC never runs out of room.
- `AssertionsHold`: the `NVMEV_ASSERT`s on pages and on the reverse map in programming and GC (not those
  of `mark_page_invalid`, nor those on the counts of a block; the counts of lines are `CountsTrue`).
- `ImplementsPageStore`: a page is programmed only after an erase, and no block with a
  current page is erased. `WriteEnds`: the write path does not loop for ever.
- `VisitsInOrder`, `EraseAfterClean`: a line's pages are written, and cleaned, once each in the
  orders `ConvFtl` assumes, and no block is erased before it is clean.
- `PicksBest`: the victim has the least exact quotient, ties to the lower line, whichever way the
  quotients were compared. `NotDominated`: no candidate with fewer valid pages, of which it is known
  when it was last written, has rested as long.
- `HeapSound`, `ImplementsVictimSet`: section 2.3.
- `ActsOnQueued`, `ImplementsCommandLife`, `ListsSound`,
  `WaitingInOrder`, `Served`: section 2.4.

- `ImplementsCommandPath`: commands are taken in order, completed once each, and shown to
  the host once, in order, while workers fill further entries. `NoLostInterrupt`: an unread
  completion is always followed by an interrupt. `EveryCommandEnds`: the host learns
  of each command's end.
- `ResourcesTrue`: the counts of active and open zones are those of the zones.
- `BufferAccounted`: write-buffer space is free, on its way back, in an incomplete page, or
  lost in one of the two known ways.
- `ImplementsZoneLife`: a zone is written forwards while active, is full at its end, and is
  emptied only by a reset.

- `ImplementsKvMap`, `ChainsEnd`, `CommandsEnd`: section 2.7. `IterComplete`: an iterator that is read to
  its end returns every key that was there when it was opened and was not deleted since.
- `MeasuresOneArm`: a window is credited to the arm all its collections ran with.
  `SettledIsConfirmed`, `BestNearLeast`, `NoArmStarves`: the arm settled on was confirmed, none is
  better by more than the tolerance, and each arm is tried again in bounded time. `PhasesEnd`: no
  phase is for ever, however little the host writes.
- `ReadsEachOnce`: a read transfers each mapped page once from the LUN that has it. `FlushIsLast`:
  a flush ends after all NAND work of all partitions. `ImplementsWindow`: the rings are windows of
  credits by absolute time: none is given twice or lost however the clock moves.

Each property of a run has a mutant in its module (a definition "Mutant of
..."), a plausible bug that TLC finds with that property.

## 6. Observations

No run is expected to fail. What follows was met while modelling; the models have the behaviour, and
no property says that it does not happen.

- `io.c:629`. The comment at `io.c:351` says that the worker "shall see the updated w at once". A
  worker delayed on an entry while the dispatcher goes round the free list can see `is_completed` go
  false before the other fields are stored. It takes about half of the
  16384 entries in use and one long delay; below that load `ActsOnQueued` holds (`workqueue_load`, and
  proved for any size under `LightLoad`).
- `io.c:585`. `nvme.h:698` says of `sq_head` in a completion "how much of this queue may be reclaimed".
  The code stores the index of the completed command, and commands complete out of order, while a
  worker reads the command again from the submission queue when it copies. A driver that frees
  entries by its own count is not affected.
- `io.c:586`. `nvmev.h:275`: the result is part of the completion (the
  address of a Zone Append). The status word with the phase bit is stored before it, so a host
  that polls, or is in its handler already, can read an earlier result.
- `kv_ftl.c:533`. A store over a value is meant to take another length if both are small, and writes at the
  old offset. Under the bitmap allocator each small value has `SMALL_LENGTH` bytes; under the append-only one,
  which is what is built, it has as many as were stored first: a longer value overwrites the value
  stored next. A batch (`kv_ftl.c:684`) and a store over a large value write at the old offset too, but
  leave the length in the entry as it was: a shorter value is read with the end of the old one, a longer
  one is cut off. Hence `KeepsSize`.
- `bitmap.c:70`. The offset of an exhausted bitmap (beyond its end, after which the search begins at the first bit again)
  is used untested; `kv_ftl.c:124` tests for -1, which neither allocator returns. Hence `KeepsRoom`.
- `simple_ftl.c`, `kv_ftl.c`: `__schedule_io_units` may set `io_unit_stat` to an earlier time than before, so a
  flush may be given a target before that of an earlier command.

The comment at `io.c:252` says the work queue is sorted by
target time; the search also stops at an entry that is due, so only entries not yet due
are in order, which is what `WaitingInOrder` says. `ssd_config.h:170` and `:235` set
`MAX_ZRWA_ZONES` to 0, but `__init_resource` allows every zone a random write area; with the
shipped sizes (0) the first write to such a zone divides by zero (`zns_read_write.c:317`).

## 7. Plan

Done: the modules of section 2. What remains, in this order:

1. `QueueLife`: the controller registers (`nvmev_proc_bars`) and creation and deletion of
   queues by the admin queue, under workers that still hold their entries.
2. The conventional FTL's use of the write buffer (`conv_write` and the releases per wordline).

Not modelled: data transfer and DMA (bytes only), the simple FTL (no state but times), the PCI
set-up and module parameters (run once, kernel glue), identify and log pages (constant
data), the controller registers and the admin commands (see 1), scripts and results.
