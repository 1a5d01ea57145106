----------------------------- MODULE MmapFault -----------------------------
(***************************************************************************)
(* The DAX mmap path of src/dax.c composed with the copy-on-write write    *)
(* path of CowWrite: nova_dax_file_mmap, the page and huge-page fault      *)
(* handlers that call nova_dax_get_blocks under i_mutex, and the           *)
(* mapping_mapped test of nova_cow_file_write, which is made before        *)
(* i_mutex is taken.  A fault leaves the user's page table mapping the     *)
(* file's blocks (ptes); munmap (outside src/) drops the mapping and its   *)
(* page-table entries.  nova_dax_pfn_mkwrite changes no state of NOVA.     *)
(***************************************************************************)
EXTENDS CowWrite

CONSTANT PmdPages   \* pages of a PMD huge page (PMD_SIZE >> PAGE_SHIFT)

EACCES == 13

VARIABLES
  mapped,   \* mapping_mapped(mapping): some vma maps the file
  ptes,     \* blocks user page tables map, inserted by faults
  checked   \* a write call has passed the mapping_mapped test, not yet i_mutex

allVars == <<vars, mapped, ptes, checked>>

\* i_mutex is free: no write call is inside nova_cow_file_write's lock.
MutexFree == w.pc = "idle"

\* nova_cow_file_write up to its mapping_mapped test (no lock held).
CowWriteCheckMapped ==
  /\ ~checked /\ nwrites < MaxWrites
  /\ IF mapped
     THEN /\ ret' = [tag |-> nwrites + 1, val |-> -EACCES]
          /\ nwrites' = nwrites + 1
          /\ UNCHANGED checked
     ELSE /\ checked' = TRUE
          /\ UNCHANGED <<ret, nwrites>>
  /\ UNCHANGED <<mem, csum, log, logTail, tree, free, isize, w, mapped, ptes>>

\* The rest of nova_cow_file_write, from mutex_lock on.
CowWriteLocked(pos, len, app) ==
  /\ checked /\ checked' = FALSE
  /\ CowWriteBegin(pos, len, app)
  /\ UNCHANGED <<mapped, ptes>>

\* nova_dax_file_mmap: the vma is set up; nothing is mapped until a fault.
DaxFileMmap ==
  /\ ~mapped /\ mapped' = TRUE
  /\ UNCHANGED <<vars, ptes, checked>>

\* munmap of the last vma (VFS, not in src/).
Munmap ==
  /\ mapped /\ mapped' = FALSE /\ ptes' = {}
  /\ UNCHANGED <<vars, checked>>

(***************************************************************************)
(* nova_dax_get_block(iblock = p, max_blocks, create) called under         *)
(* i_mutex by the fault handlers.  A mapped page returns the run of its    *)
(* entry from p (one block if the entry has invalid pages), capped at      *)
(* max_blocks.  A hole on a read fault returns 0 (the kernel maps the zero *)
(* page).  On a write fault it allocates up to the next entry, zeroed,     *)
(* appends an entry that keeps i_size, publishes the tail, assigns the new *)
(* pages in the tree and returns the run.  The new blocks get no checksum. *)
(* An allocation failure changes nothing; an append failure frees the      *)
(* blocks.  FaultInsert is what the caller does with the run.             *)
(***************************************************************************)

\* entry->invalid_pages # 0: a page of entry q has moved to a later entry
\* (counted by nova_assign_write_entry, outside src/).
HasInvalidPages(q) == \E x \in Pages : Covers(log[q], x) /\ tree[x] # q

\* nova_find_next_entry (outside src/): the pgoff of the first entry mapped
\* after the hole at p, or none (then max_blocks alone bounds the run).
NextPgoff(p, maxb) ==
  LET xs == {x \in Pages : x > p /\ tree[x] # 0} IN
  IF xs = {} THEN p + maxb
  ELSE log[tree[CHOOSE x \in xs : \A y \in xs : x <= y]].pgoff

\* dax_fault maps the one page it faulted on.
PteInsert(nvmm, num) == ptes' = ptes \cup {nvmm}

\* dax_pmd_fault maps the whole huge page when the run covers it, and
\* otherwise (or when the pfn is not PMD-aligned, which is not modelled)
\* falls back to page faults.
PmdInsert(nvmm, num) ==
  \/ num = PmdPages /\ ptes' = ptes \cup Run(nvmm, num)
  \/ ptes' = ptes

\* The caller of nova_dax_get_block: only the huge-page handler asks for
\* more than one block.
FaultInsert(nvmm, num, maxb) ==
  IF maxb = 1 THEN PteInsert(nvmm, num) ELSE PmdInsert(nvmm, num)

DaxGetBlocksMapped(p, maxb) ==
  LET q   == tree[p]
      num == MinOf(IF HasInvalidPages(q) THEN 1
                   ELSE log[q].num_pages - (p - log[q].pgoff), maxb)
  IN
  /\ q # 0
  /\ FaultInsert(GetNvmm(log[q], p), num, maxb)
  /\ UNCHANGED vars

DaxGetBlocksFill(p, maxb, b, n, appended) ==
  LET num   == MinOf(NextPgoff(p, maxb) - p, maxb)
      cur   == logTail + 1
      entry == [pgoff |-> p, num_pages |-> n, block |-> b, size |-> isize]
  IN
  /\ tree[p] = 0
  /\ IF free = {}
     THEN UNCHANGED <<vars, ptes>>
     ELSE /\ n \in 1 .. num /\ Run(b, n) \subseteq free
          /\ appended => cur \in LogPos
          /\ mem' = [x \in Blocks |-> IF x \in Run(b, n)
                                      THEN [u \in Units |-> 0] ELSE mem[x]]
          /\ IF ~appended
             THEN /\ free' = CleanupIncompleteWrite(free \ Run(b, n), b, n, 0, 0)
                  /\ UNCHANGED <<log, logTail, tree, ptes>>
             \* The new pages were holes: the reassignment frees nothing.
             ELSE /\ log' = [log EXCEPT ![cur] = entry]
                  /\ logTail' = cur
                  /\ tree' = [x \in Pages |-> IF p <= x /\ x < p + n
                                              THEN cur ELSE tree[x]]
                  /\ free' = free \ Run(b, n)
                  /\ FaultInsert(b, n, maxb)
          /\ UNCHANGED <<csum, isize, w, ret, nwrites>>

DaxGetBlock(p, maxb, create, b, n, appended) ==
  \/ DaxGetBlocksMapped(p, maxb)
  \/ ~create /\ tree[p] = 0 /\ UNCHANGED <<vars, ptes>>
  \/ create /\ appended \in (IF AppendMayFail THEN BOOLEAN ELSE {TRUE})
     /\ DaxGetBlocksFill(p, maxb, b, n, appended)

\* nova_dax_fault (and page_mkwrite): max_blocks = 1, within i_size.
DaxFault(p, create, b, n, appended) ==
  /\ mapped /\ MutexFree /\ p * PageUnits < isize
  /\ DaxGetBlock(p, 1, create, b, n, appended)
  /\ UNCHANGED <<mapped, checked>>

\* nova_dax_pmd_fault: an aligned huge page that lies within i_size.
DaxPmdFault(p, create, b, n, appended) ==
  /\ mapped /\ MutexFree
  /\ p % PmdPages = 0 /\ (p + PmdPages - 1) * PageUnits < isize
  /\ DaxGetBlock(p, PmdPages, create, b, n, appended)
  /\ UNCHANGED <<mapped, checked>>

\* A power failure also ends every process and its mappings.
CrashAll ==
  /\ Crash
  /\ mapped' = FALSE /\ ptes' = {} /\ checked' = FALSE

MInit == Init /\ mapped = FALSE /\ ptes = {} /\ checked = FALSE

MNext ==
  \/ CowWriteCheckMapped
  \/ \E pos \in 0 .. FileLen - 1, len \in 1 .. FileLen, app \in BOOLEAN :
       CowWriteLocked(pos, len, app)
  \/ (CowWriteAllocFail \/ CowWritePublish
      \/ \E b \in Blocks, k \in 1 .. NumPages, c \in 0 .. FileLen,
            bv \in {0, Scribble} \cup Tags, ok \in BOOLEAN :
           CowWriteStep(b, k, c, bv, ok))
     /\ UNCHANGED <<mapped, ptes, checked>>
  \/ DaxFileMmap
  \/ Munmap
  \/ \E p \in Pages, create \in BOOLEAN, b \in Blocks, ok \in BOOLEAN :
       DaxFault(p, create, b, 1, ok)
  \/ \E p \in Pages, create \in BOOLEAN, b \in Blocks, n \in 1 .. PmdPages,
        ok \in BOOLEAN :
       DaxPmdFault(p, create, b, n, ok)
  \/ CrashAll

MSpec == MInit /\ [][MNext]_allVars

\* No block a user mapping can store to is on the free list: a write to a
\* mapped file is refused (mapping_mapped), so copy-on-write never frees a
\* block under a live mapping.
FreeDisjointMapped == ptes \cap free = {}
====
