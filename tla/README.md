# TLA+ models of NOVA's write, read and mmap paths, parity and lite journal

This directory holds TLA+ models of the crash-consistency core of NOVA, the
log-structured persistent-memory file system in `src/`. The models are checked
with TLC. Every definition is translated from the C source, and
`PROJECT.json` maps each one to the lines it models. Code that is not under
`src/` is modelled from `spec.md` and marked `spec_modelled`: the allocator, the
radix-tree assignment, the inode rebuild at mount, and the directory operations
of namei.c.

## The system

| Part | Source | What it does |
|---|---|---|
| Copy-on-write write engine | `src/dax.c` `nova_cow_file_write` and helpers (lines 177-546) | Under `i_mutex`, each chunk of a write gets new blocks. The untouched head and tail of the chunk are copied from the old blocks or zero-filled. The user data is copied in, a write entry is appended to the inode log, and the block checksums are updated. After the loop the log tail is published with a fence, the radix tree is reassigned (freeing superseded blocks) and `i_size` grows. On error the `out:` label is meant to free what was allocated. |
| Read engine | `do_dax_mapping_read` (22-156), `nova_verify_data_csum` (1275-1316) | Lock-free: resolves each page through the radix tree, reads holes as zero, and verifies whole-block checksums. |
| mmap / fault path | `nova_dax_get_blocks` (559-688), `nova_dax_get_block` (690-706), fault handlers (1080-1156) | Page and huge-page faults look up or allocate zeroed blocks under `i_mutex`; `nova_cow_file_write` refuses files that are mapped. |
| Checksum and parity engine | `nova_update_cow_csum` (dax.c 1190-1261), `src/unnamed/part_001` 1-392 | Per-block CRC, per-stripe parity and parity-based repair of a bad stripe. |
| Lite journal | `src/unnamed/part_001` 394-755 | A per-CPU ring of 32-byte undo entries between `journal_head` and `journal_tail`. `create_*_transaction` appends before-images and makes the tail durable, `commit` sets head = tail, and mount-time `soft_init` checks and undoes every uncommitted range. |
| Helpers | `src/mprotect.h`, `src/snapshot.h`, Makefile | Write-protection toggles, struct layouts, build. |

The write engine and the journal do not touch the same state. The write engine
uses the inode log and the data blocks; the journal protects the multi-inode
directory operations. They are therefore separate modules. Their shared
hazard, a crash, is part of each module. The mmap path shares the inode log,
the radix tree, the allocator and `i_mutex` with the write engine, so
`MmapFault` extends `CowWrite`. The lock-free reader reads the same tree, log and
blocks while a writer changes them, so `ReadEngine` also extends `CowWrite`. The parity engine works on one block's
content, checksums and parity and is a module of its own.

## Modules

### `CowWrite.tla`: the write path of one inode

- **State.**
  - `mem` and `csum`: PM data blocks and their checksum slots.
  - `log` and `logTail`: the inode log and `pi->log_tail`.
  - `tree` and `free`: the DRAM radix tree and the allocator free list.
  - `isize`, `ret` and `nwrites`.
  - `w`: the locals of the writer holding `i_mutex`, with its `pc` (`idle`, `loop` or `publish`).
- **Data.** A byte is a payload tag:
  - 0 for zero fill;
  - the number of the write that stored it;
  - `Garbage` for never-written blocks;
  - `Scribble` for a value another thread stored into the user buffer.

  A checksum is the exact block content it was computed over, so checksums agree exactly when the contents agree.
- **Actions.**
  - `CowWriteBegin` covers the entry checks, `O_APPEND`, and the setup of the loop; an `access_ok` failure returns -EFAULT.
  - `CowWriteAllocFail` is an allocation failure.
  - `CowWriteStep` is one whole iteration of the loop: allocate a contiguous run, `HandleHeadTailBlocks`, `CopyPayload`, append, `UpdateCowCsum`, then the status/break logic.
  - `CowWritePublish` publishes the tail, runs `ReassignFileTree`, and sets `i_size` and the return value.
  - `Crash` is a power failure followed by the mount-time rebuild. It is spec-modelled: each page maps to the last published entry covering it, and every other block is free.
- **Widths.** `size_t` is kept as `SizeT(x) = x % 2^Width`. This is what makes `if (ret < 0)` at dax.c:536 always false.
- **Options.** The constants `ShortCopy`, `RacyBuffer` and `AppendMayFail` switch on:
  - a faulting copy from user memory;
  - a concurrent store to the user buffer;
  - failure of `nova_append_file_write_entry`.

### `FileAbs.tla`: what a write promises

An abstract file holds `data`, `size`, the request in flight and the last reply.
A write either completes `k` bytes atomically (data overlaid, `size` grown to
`pos + k` when `k > 0`, reply `k`) or fails with a negative error without
changing the file. `MC_CowWrite.tla` instantiates it with this refinement
mapping:

| FileAbs variable | Maps to |
|---|---|
| `data` | `Visible` (what a reader sees through the tree) |
| `size` | `isize` |
| `req` | the writer's request |
| `reply` | `ret` |

`AbsSpec` is checked as a temporal property.

### `LiteJournal.tla`: journal, recovery and a PM model

- **Memory.** Memory is a set of cache-line locations: one pointer pair per CPU, journal slots, inodes and raw fields.
  - `vmem` is what the CPU sees; `pmem` is what survives power loss.
  - `Evict(l)` writes back any dirty line at any moment.
  - `clflush` and NT stores enter `flushed`, and the fence of `nova_flush_buffer(.., 1)` (`Fence`) persists them.
  - `Crash` keeps `pmem`, or all of `vmem` under eADR (`ExtendedADR`), restarts every CPU and starts `soft_init`.
- **Code actions.**
  - `CreateInodeTransaction` and `CreateRenameTransaction` use `AppendItems` over `AppendInodeJournal` and `AppendEntryJournal`.
  - `CommitLiteTransaction`.
  - `soft_init` is split into steps: `SoftInitSkip`, `SoftInitCorrupt`, `SoftInitRecover` and `SoftInitReturn`.
  - Recovery is also split into steps (`RecoverEntry`, `RecoverResetTail`, `RecoverFlush`), so a crash can fall between any two of them.
  - `Init` is the state `hard_init` leaves: every head = tail = 0, and every slot zeroed.
- **Uninitialised `ret`.** Its value is a nondeterministic choice between 0 and non-zero (`RetOutcomes`).
- **Client (spec-modelled from spec 4.4).** A directory operation:
  - creates a transaction on inodes and fields no other CPU is using and whose mirror is current;
  - updates them durably (`UpdateInode`, `UpdateField`);
  - commits;
  - and later `SyncReplica` brings the mirror (`alter_pi`) up to date.
- **Ghost variable.** `committed` records each inode and field as of its last commit.

### `MmapFault.tla`: mmap and faults composed with the write path

- **Extends `CowWrite`** with `mapped` (`mapping_mapped`), `ptes` (the blocks
  user page tables map) and `checked` (a write call that passed the
  `mapping_mapped` test and has not yet taken `i_mutex`).
- **Actions.**
  - `CowWriteCheckMapped` is the test at dax.c:375, made without the lock; on a mapped file the call returns -EACCES.
  - `CowWriteLocked` is the rest of the call: `CowWriteBegin` and the loop and publish actions of `CowWrite`.
  - `DaxFileMmap` is `nova_dax_file_mmap`; `Munmap` (VFS) drops the mapping and its page-table entries.
  - `DaxGetBlock` is `nova_dax_get_blocks` for a page `p` and a `max_blocks`:
    - a mapped page (`DaxGetBlocksMapped`) returns the run of its entry from `p`, or one block if the entry has invalid pages (`HasInvalidPages`), capped at `max_blocks`;
    - a read fault on a hole returns 0 and the kernel maps the zero page;
    - a write fault on a hole (`DaxGetBlocksFill`) limits the run to the next entry (`NextPgoff`, `nova_find_next_entry`) and to `max_blocks`. The allocator may return fewer blocks. The run is zeroed, an entry of that length that keeps `i_size` is appended, the tail is updated, the pages are assigned in the tree, and the run is returned. The new blocks get no checksum. An allocation failure changes nothing, and an append failure frees the run.
  - The caller passes what it does with the run (`Insert`):
    - `DaxFault` (`nova_dax_fault`, also `page_mkwrite`) has `max_blocks` = 1 and maps the one page (`PteInsert`);
    - `DaxPmdFault` (`nova_dax_pmd_fault`) takes an aligned huge page of `PmdPages` pages that lies within `i_size`. It maps the whole run when the run covers the huge page, and otherwise falls back (`PmdInsert`). A fallback is also always allowed, which stands for the pfn-alignment test of `dax_pmd_fault` that is not modelled.
  - `nova_dax_pfn_mkwrite` only makes an existing PTE writable, or returns SIGBUS past `i_size`. It changes no NOVA state and is not an action.
  - `CrashAll` is `Crash` plus the end of every process and mapping.

### `ReadEngine.tla`: lock-free reads composed with the write path

- **Extends `CowWrite`** with `rd`, the reader's locals, and `nreads`. `rd`
  also holds two ghost fields: `snap`, the bytes the resolved blocks held
  when the reader resolved them, and `buf`, what it copied out.
- **Why reads interleave.** `nova_dax_file_read` calls `do_dax_mapping_read` with its `rcu_read_lock` commented out, and takes no `i_mutex`.
- **Actions.** Each loop iteration is three steps, and any writer step can fall between them.
  - `ReadBegin` is `access_ok`, the `i_size` snapshot and the `len` clamp (none when `pos` > `i_size`, as `size_t` against `loff_t`).
  - `ReadResolve` is the end-of-file test, `nova_get_write_entry`, the contiguous run (one page for a `reassigned` entry) and `get_nvmm`.
  - `ReadVerify` is `nova_verify_data_csum` (`VerifyDataCsum`) over the whole blocks of the chunk; a mismatch ends the read with -EIO.
  - `ReadCopy` is the copy (or clear, for a hole), with its -EFAULT, and the advance of the loop.
  - `CrashRead` is `Crash`, which also ends the read.
- **Constant.** `CsumBase` stands for `block_csum_base`.

### `Parity.tla`: block checksums, parity and repair

- **Data.** One block of `NumStrps` stripes of `StrpWords` one-bit words.
  - XOR is Bitwise `^^`.
  - A crc32c is the stripe content it covers.
  - The unroll width of 8 is scaled to the constant `Unroll`.
- **State.**
  - `data`, `csum` (two copies) and `parity` are the block and its metadata in NVMM.
  - `good` is the last written block (a ghost).
  - `injected` holds the silent media errors (a ghost).
  - `last` is the last `nova_restore_data` result.
  - `oops` records a copy from the NULL parity buffer.
  - `freeList` is the region `nova_data_parity_init_free_list` reserved.
- **Operators.** `XorOfStripes` (recursive), `CalculateBlockParity`, `UpdateBlockParity` and `UpdateBlockCsumParity`. The last covers the unrolled and generic branches, the kmalloc failure, and the block pointer advanced at part_001:212.
- **Actions.**
  - `WriteBlock` is a caller writing any range.
  - `UpdatePgoffParity` and `TruncatedBlockParity` recompute parity from NVMM.
  - `RestoreData(s)` is the repair.
  - `StripeFault`, `CsumFault` and `ParityFault` are media errors, bounded by `MaxFaults`.

## Runs

| Run | cfg | Expect | What it shows |
|---|---|---|---|
| cow_write | MC_CowWrite.cfg | pass | With allocation and append failures and crashes at every step: no reachable block is free (`FreeDisjointLive`), every reachable block's checksum matches (`CsumMatchesLiveData`), and the write refines `FileAbs` (`AbsSpec`). 408k states, about 1 min. |
| cow_leak | MC_CowWrite_leak.cfg | violation | `NoLeakedBlocks`: a failed append returns -ENOSPC but the cleanup is dead code (`size_t ret`), so the chunk's blocks leak. |
| cow_short_copy | MC_CowWrite_short.cfg | violation | `AbsSpec`: a copy that faults completely still sets `i_size` to the write position, and returns 0 instead of -EFAULT. |
| journal_eadr | MC_LiteJournal.cfg | pass | Under eADR, with a crash at every step including mid-recovery: committed state is always what the mount sees (`CommittedStateRecovered`), and every entry between the durable head and tail is intact (`JournalWindowIntact`). While mounted, each ring's window holds exactly one entry per inode and field of the transaction open on it, and nothing otherwise, also after the ring wraps (`WindowHoldsOpenTxn`). 40k states. |
| journal_adr_pointers | MC_LiteJournal_adr_pass.cfg | pass | Under ADR with arbitrary evictions, commit and recovery leave the persistent head equal to the tail (`PointersDurableWhenIdle`). This is the run where a corrupt journal fails the mount (`SoftInitCorrupt`). |
| journal_adr_recovery | MC_LiteJournal_adr.cfg | violation | `CommittedStateRecovered`: the reset tail is evicted before the unfenced NT undo stores, and a crash keeps the uncommitted inode. |
| journal_adr_window | MC_LiteJournal_window.cfg | violation | `JournalWindowIntact`: the create functions flush only the pointer line, never the entries. |
| read_freed_block | MC_ReadEngine.cfg | violation | `ReadNotTorn` over 13 steps: a read resolves page 0 to block 1. A second write supersedes page 0 and frees block 1. A third write reuses block 1 for its own data and checksum. The read then passes the checksum test and returns the third write's bytes. |
| mmap_stale_pte | MC_MmapFault.cfg | violation | `FreeDisjointMapped`: a write passes the `mapping_mapped` test, then an mmap and a write fault map block B of page 0. The write then takes `i_mutex`, copy-on-writes page 0 and frees B, which the user page table still maps. This takes 11 steps. |
| parity | MC_Parity.cfg | pass | With up to two media errors and parity also recomputed by the pgoff and truncate paths: one bad stripe under correct parity is always repaired (`SingleFaultRecoverable`); repair never installs data that was not written (`RestoreOnlyWrittenData`); and the reserved parity region fits every device size up to `MaxTotal` (`ParityRegionSuffices`). 219k states. |
| parity_unroll_pointer | MC_Parity_pointer.cfg | violation | `SingleFaultRecoverable`: without SSE4.2 the stripe checksums are taken through the pointer the unrolled loop advanced, so a healthy stripe cannot be restored. |
| parity_enomem | MC_Parity_enomem.cfg | violation | `RestoreOnlyWrittenData`: a kmalloc failure in the unrolled path returns 0 with stale checksums and parity, and a later restore silently reverts the write. |

Each property of a passing run has a mutant in `PROJECT.json`: a plausible bug
in a mapped definition that TLC catches under that run's cfg. The mutants:

- an off-by-one block count;
- an allocated run taken one block short;
- a skipped tail checksum;
- a zero-filled head;
- a late ring wrap;
- a no-op inode undo;
- a checksum computed before `data2` is set;
- recovery flushing the pointers without a fence;
- a rename transaction that writes the `father_ino` entry but leaves the tail before it;
- XOR replaced by addition;
- parity of one stripe too few;
- a checksum-copy typo in restore;
- a parity region rounded down.

Five behaviours whose violations TLC finds are kept in the modules but are
not among the runs:

- `RacyBuffer` in CowWrite: a concurrent store to the user buffer breaks `CsumMatchesLiveData`.
- `ReplicaInode = FALSE` in LiteJournal: the inode undo is a no-op (the FIXME at part_001:505).
- `DataParity = FALSE` in Parity: the unrolled branch copies the NULL parity buffer (`oops`).
- In LiteJournal, `soft_init` returns its uninitialised `ret` when every head equals its tail (`RetOutcomes`). A clean mount can then fail.
- The fault path in MmapFault: `DaxGetBlocksFill` leaves the checksum region untouched (dax.c:628). Spec section 2 says a fault-fill runs the same sequence as a write, "computing integrity metadata". Checked on `MmapFault` with the `MC_MmapFault` bounds, `CsumMatchesLiveData` is violated in 7 states: mmap, then a write fault on a hole. A read of that page then fails `nova_verify_data_csum` with -EIO.

Each of the first four is either a race of the caller, an unsupported
configuration, or a one-step fault. The fifth is left out only because the
project is at its limit of runs, and each run it has shows a distinct defect.

## Bounds and why they are enough

**CowWrite.** 2 pages of 2 bytes, 3 blocks, 3 writes, 6 log slots, and an 8-bit `size_t`. This covers:

- head-only, tail-only, aligned and two-block writes;
- overwrites of partly covered pages;
- allocation running out in the second chunk;
- an append failing in the first or second chunk.

With 4 blocks the run takes over 5 minutes.

**LiteJournal, eADR.** 1 CPU, a 4-entry ring, transactions of up to 3 entries, 2 inodes, 1 field and 2 values. A 3-entry rename followed by a 2-entry transaction wraps the ring, so stale entries from an earlier transaction lie past the tail. Since under eADR `pmem` and `flushed` never affect other variables, the run uses `VIEW EADRView`, which leaves them out.

**LiteJournal, ADR pass.** A 3-entry ring, no raw field, and inode symmetry. Every eviction order is explored, which is expensive; the eADR run covers the raw field.

**MmapFault.** The CowWrite bounds with 2 writes and 4 log slots, and
`PmdPages` = 2, so the two-page file is one huge page. One write creates the
file; the second is enough for the check/mmap/fault/lock interleaving. A huge
page is mapped whole once `i_size` covers both pages, and a write at page 1
leaves page 0 a hole that a huge-page fault fills with a run of one or two
blocks.

**ReadEngine.** 2 pages of one byte, 3 blocks, 3 writes, 3 log slots and
one read. One write creates the file, a second supersedes the page the read
resolved, and a third reuses the freed block, which is the least that shows
reuse. Bytes within a page do not matter to this question; with 2-byte pages
the same violation takes 2.5 minutes.

**Parity.** 2 stripes of 2 one-bit words, with `Unroll` = 2 so that a
whole-block write takes the unrolled branch. `MaxFaults` = 2, so a
single fault and a fault together with a corrupt checksum copy or parity both
occur. `MaxTotal` = 12 and `MaxCPUs` = 3 cover device sizes that do not
divide evenly by the stripe count or by the CPUs.

**Not covered by the bounds.** Two CPUs exceed five minutes. The per-CPU loop of `soft_init` (a checksum failure on one CPU stopping the loop before later CPUs are recovered) is therefore only exercised with one CPU.

## Fairness

No run checks liveness. The one "eventually" the code offers is that
`soft_init` ends. Its recovery loop steps with the same `next_lite_journal`
the append used, between pointers that are always ring slots, so in the
model it ends whatever the wrap code does. Only a pointer pair corrupted on
the media could make it spin (part_001:562), and the model does not produce
one. The write path has the same shape: `Crash` is always enabled, and an
"eventually" property would only restate that the loop's cursor advances.

## Not modelled

1. **Memory protection (`src/mprotect.h`).** The helpers are conditional wrappers around `nova_writeable`, which is outside `src/`, so they hold no state of their own. `nova_sync_super` computes a CRC of the super block, which no module models.
2. **Omitted details.** `i_blocks` accounting, timestamps, `snapshot.h` (struct layouts only) and the compiled-out `#if 0` code (dax.c 708-1078) are left out. None of the properties is about them.
