------------------------------ MODULE CowWrite ------------------------------
(***************************************************************************)
(* The copy-on-write write path of NOVA for one inode: nova_cow_file_write *)
(* in src/dax.c with the helpers it calls (nova_handle_head_tail_blocks,   *)
(* nova_update_cow_csum, nova_reassign_file_tree,                          *)
(* nova_cleanup_incomplete_write), the allocator and the radix-tree        *)
(* assignment it relies on, and a crash followed by the mount-time rebuild *)
(* of the inode from its published log.                                    *)
(*                                                                         *)
(* Data is abstracted to payload tags: a page has PageUnits bytes and a    *)
(* byte holds 0 (zero fill), the tag of the write that stored it, Garbage  *)
(* (never written since the block was formatted) or Scribble (a value a    *)
(* concurrent user thread put into the write buffer).  A checksum is       *)
(* modelled by the exact block content it was computed over, so two       *)
(* checksums agree iff their contents agree (CRC collisions are ignored).  *)
(* A log position q stands for the q-th entry slot of the inode log; a     *)
(* log tail of q means entries 1..q are published (0: pi->log_tail == 0).  *)
(***************************************************************************)
EXTENDS Integers, FiniteSets

CONSTANTS NumPages,      \* logical pages the file may span
          PageUnits,     \* bytes of a page, abstracted
          NumBlocks,     \* physical data blocks the allocator manages
          MaxWrites,     \* bound on write calls; payload tags 1..MaxWrites
          MaxLog,        \* log entry slots
          Width,         \* bits of size_t
          ShortCopy,     \* memcpy from the user buffer may fall short
          RacyBuffer,    \* another user thread may rewrite the buffer
          AppendMayFail  \* nova_append_file_write_entry may return 0

Pages    == 0 .. NumPages - 1
Units    == 0 .. PageUnits - 1
FileLen  == NumPages * PageUnits
Blocks   == 1 .. NumBlocks
LogPos   == 1 .. MaxLog
Tags     == 1 .. MaxWrites
Scribble == MaxWrites + 1
Garbage  == MaxWrites + 2
Data     == 0 .. Garbage
NoCsum   == <<>>                 \* checksum slot never written

ENOSPC == 28
EFAULT == 14
EINVAL == 22

\* An integer stored into a size_t, and a size_t returned as ssize_t.
SizeT(x)   == x % (2 ^ Width)
SSizeT(x)  == IF x >= 2 ^ (Width - 1) THEN x - 2 ^ Width ELSE x

MinOf(a, b) == IF a < b THEN a ELSE b

Entry == [pgoff : Pages, num_pages : 1 .. NumPages, block : Blocks,
          size : 0 .. FileLen]
NoEntry == [pgoff |-> 0, num_pages |-> 1, block |-> 1, size |-> 0]

VARIABLES
  mem,      \* PM data blocks: block -> unit -> byte
  csum,     \* PM per-block checksum region (nova_get_block_csum_addr)
  log,      \* PM inode log: slot -> file write entry
  logTail,  \* PM pi->log_tail, the publication point
  tree,     \* DRAM radix tree: page -> log slot of its entry, 0 = hole
  free,     \* DRAM allocator free list
  isize,    \* DRAM inode->i_size
  w,        \* the writer holding inode->i_mutex and its locals
  ret,      \* what the last completed write call returned
  nwrites   \* write calls started so far

vars == <<mem, csum, log, logTail, tree, free, isize, w, ret, nwrites>>

Idle == [pc |-> "idle", tag |-> 0, pos0 |-> 0, len |-> 0, pos |-> 0,
         count |-> 0, num_blocks |-> 0, temp_tail |-> 0, begin_tail |-> 0,
         written |-> 0, status |-> 0]

-----------------------------------------------------------------------------
(* Block map helpers *)

\* get_nvmm: the physical block of page p inside entry e.
GetNvmm(e, p) == e.block + (p - e.pgoff)

Covers(e, p) == e.pgoff <= p /\ p < e.pgoff + e.num_pages

\* Blocks currently mapped by the radix tree.
LiveBlocks == {GetNvmm(log[tree[p]], p) : p \in {q \in Pages : tree[q] # 0}}

\* Byte x of the file as a reader sees it through the tree.
Visible == [x \in 0 .. FileLen - 1 |->
              LET p == x \div PageUnits IN
              IF x >= isize \/ tree[p] = 0 THEN 0
              ELSE mem[GetNvmm(log[tree[p]], p)][x % PageUnits]]

\* Mutant: the block count misses the "- 1" for a range ending on a block
\* boundary.
NumBlocksSpannedOff(offset, count) == ((count + offset) \div PageUnits) + 1

\* Blocks spanned by count bytes starting at byte offset of a block.
NumBlocksSpanned(offset, count) == ((count + offset - 1) \div PageUnits) + 1

\* Mutant: the run of allocated blocks is taken one block short.
RunShort(b, k) == b .. b + k - 2

\* The k contiguous blocks starting at b.
Run(b, k) == b .. b + k - 1

-----------------------------------------------------------------------------
(* Mutant: the head of the first block is zero-filled even where an old   *)
(* block is mapped (the entry lookup of the head case is skipped).         *)
HandleHeadTailBlocksZeroHead(m, pos, count, kb) ==
  LET offset      == pos % PageUnits
      num_blocks  == NumBlocksSpanned(offset, count)
      end_blk     == pos \div PageUnits + num_blocks - 1
      eblk_offset == (pos + count) % PageUnits
      last        == kb + num_blocks - 1
      m1 == IF offset = 0 THEN m
            ELSE [m EXCEPT ![kb] = [u \in Units |->
                    IF u < offset THEN 0 ELSE m[kb][u]]]
  IN  IF eblk_offset = 0 THEN m1
      ELSE [m1 EXCEPT ![last] = [u \in Units |->
              IF u >= eblk_offset
              THEN IF tree[end_blk] = 0 THEN 0
                   ELSE m1[GetNvmm(log[tree[end_blk]], end_blk)][u]
              ELSE m1[last][u]]]

(* nova_handle_head_tail_blocks: fill the unwritten head and tail of the   *)
(* new blocks starting at kb from the blocks they replace, or with zero.   *)
HandleHeadTailBlocks(m, pos, count, kb) ==
  LET offset      == pos % PageUnits
      num_blocks  == NumBlocksSpanned(offset, count)
      start_blk   == pos \div PageUnits
      end_blk     == start_blk + num_blocks - 1
      eblk_offset == (pos + count) % PageUnits
      last        == kb + num_blocks - 1
      Old(mm, p, u) == IF tree[p] = 0 THEN 0
                       ELSE mm[GetNvmm(log[tree[p]], p)][u]
      m1 == IF offset = 0 THEN m
            ELSE [m EXCEPT ![kb] = [u \in Units |->
                    IF u < offset THEN Old(m, start_blk, u) ELSE m[kb][u]]]
  IN  IF eblk_offset = 0 THEN m1
      ELSE [m1 EXCEPT ![last] = [u \in Units |->
              IF u >= eblk_offset THEN Old(m1, end_blk, u) ELSE m1[last][u]]]

\* memcpy_to_pmem_nocache of copied bytes of payload at byte offset of the
\* run starting at block b.
CopyPayload(m, b, offset, copied, tag) ==
  [blk \in Blocks |-> [u \in Units |->
     LET o == (blk - b) * PageUnits + u IN
     IF blk >= b /\ offset <= o /\ o < offset + copied THEN tag
     ELSE m[blk][u]]]

-----------------------------------------------------------------------------
(* nova_update_cow_csum: whole-block checksums over the bytes just written *)
(* (taken from the user buffer, whose bytes now read bufv) and the head    *)
(* and tail bytes around them (taken from PM).                             *)
CsumBlock(m, blk, bufv, lo, hi) ==
  [u \in Units |-> IF lo <= u /\ u < hi THEN bufv ELSE m[blk][u]]

\* Mutant: the partial tail block is left without a checksum.
RECURSIVE CsumLoopNoTail(_, _, _, _, _, _)
CsumLoopNoTail(cs, m, blk, bufv, csummed, bytes) ==
  IF csummed + PageUnits < bytes
  THEN CsumLoopNoTail([cs EXCEPT ![blk] = CsumBlock(m, blk, bufv, 0, PageUnits)],
                      m, blk + 1, bufv, csummed + PageUnits, bytes)
  ELSE cs

RECURSIVE CsumLoop(_, _, _, _, _, _)
CsumLoop(cs, m, blk, bufv, csummed, bytes) ==
  IF csummed + PageUnits < bytes
  THEN CsumLoop([cs EXCEPT ![blk] = CsumBlock(m, blk, bufv, 0, PageUnits)],
                m, blk + 1, bufv, csummed + PageUnits, bytes)
  ELSE IF csummed < bytes
       THEN [cs EXCEPT ![blk] = CsumBlock(m, blk, bufv, 0, bytes - csummed)]
       ELSE cs

UpdateCowCsum(cs, m, blocknr, bufv, offset, bytes) ==
  IF offset # 0
  THEN LET csummed == MinOf(PageUnits - offset, bytes) IN
       CsumLoop([cs EXCEPT ![blocknr] =
                   CsumBlock(m, blocknr, bufv, offset, offset + csummed)],
                m, blocknr + 1, bufv, csummed, bytes)
  ELSE CsumLoop(cs, m, blocknr, bufv, 0, bytes)

-----------------------------------------------------------------------------
(* nova_reassign_file_tree: assign entries begin..last to the radix tree   *)
(* (nova_assign_write_entry, outside src/: each page's superseded block is *)
(* freed as the new entry takes it over).                                  *)
AssignWriteEntry(s, q) ==
  LET pages == {p \in Pages : Covers(log[q], p)} IN
  [tree |-> [p \in Pages |-> IF p \in pages THEN q ELSE s.tree[p]],
   free |-> s.free \cup {GetNvmm(log[s.tree[p]], p) :
                           p \in {x \in pages : s.tree[x] \notin {0, q}}}]

RECURSIVE AssignFrom(_, _, _)
AssignFrom(s, q, last) ==
  IF q > last THEN s ELSE AssignFrom(AssignWriteEntry(s, q), q + 1, last)

\* Result: [err, tree, free]; err = 0 or -EINVAL when begin_tail is 0 but
\* the published log is not empty.
ReassignFileTree(begin_tail, tail) ==
  IF begin_tail = 0
  THEN [err |-> IF tail = 0 THEN 0 ELSE -EINVAL, tree |-> tree, free |-> free]
  ELSE LET s == AssignFrom([tree |-> tree, free |-> free], begin_tail, tail)
       IN [err |-> 0, tree |-> s.tree, free |-> s.free]

(* nova_cleanup_incomplete_write: free the blocks of the failing iteration *)
(* and of every entry appended since begin_tail.                           *)
CleanupIncompleteWrite(fr, blocknr, allocated, begin_tail, end_tail) ==
  LET fr1 == IF blocknr > 0 /\ allocated > 0
             THEN fr \cup Run(blocknr, allocated) ELSE fr
  IN  IF begin_tail = 0 \/ end_tail = 0 THEN fr1
      ELSE fr1 \cup UNION {Run(log[q].block, log[q].num_pages) :
                             q \in begin_tail .. end_tail}

\* `if (ret < 0)` on the size_t ret of nova_cow_file_write.
RetIsNegative(r) == r < 0

\* The out: label of nova_cow_file_write: cleanup if ret < 0, drop the
\* mutex, return ret as ssize_t.
WriteOut(fr, r, blocknr, allocated) ==
  /\ free' = IF RetIsNegative(r)
             THEN CleanupIncompleteWrite(fr, blocknr, allocated,
                                         w.begin_tail, w.temp_tail)
             ELSE fr
  /\ ret' = [tag |-> w.tag, val |-> SSizeT(r)]
  /\ w' = Idle

-----------------------------------------------------------------------------
(* Actions *)

Init ==
  /\ mem = [b \in Blocks |-> [u \in Units |-> Garbage]]
  /\ csum = [b \in Blocks |-> NoCsum]
  /\ log = [q \in LogPos |-> NoEntry]
  /\ logTail = 0
  /\ tree = [p \in Pages |-> 0]
  /\ free = Blocks
  /\ isize = 0
  /\ w = Idle
  /\ ret = [tag |-> 0, val |-> 0]
  /\ nwrites = 0

\* nova_cow_file_write up to the loop: the mmap check is the subject of
\* another module; here the call passes it, takes i_mutex and, unless
\* access_ok or file_remove_privs fails, sets up the loop.
CowWriteBegin(posIn, len, append) ==
  LET tag == nwrites + 1
      pos == IF append THEN isize ELSE posIn
      offset == pos % PageUnits
  IN
  /\ w.pc = "idle"
  /\ nwrites < MaxWrites
  /\ pos + len <= FileLen
  /\ nwrites' = tag
  /\ \/ /\ w' = [Idle EXCEPT !.pc = "loop", !.tag = tag, !.pos0 = pos,
                   !.len = len, !.pos = pos, !.count = len,
                   !.num_blocks = NumBlocksSpanned(offset, len),
                   !.temp_tail = logTail]
        /\ UNCHANGED ret
     \/ /\ ret' = [tag |-> tag, val |-> -EFAULT]
        /\ UNCHANGED w
  /\ UNCHANGED <<mem, csum, log, logTail, tree, free, isize>>

\* Loop body, allocator out of space: goto out with ret = allocated.
CowWriteAllocFail ==
  /\ w.pc = "loop"
  /\ free = {}
  /\ WriteOut(free, SizeT(-ENOSPC), 0, -ENOSPC)
  /\ UNCHANGED <<mem, csum, log, logTail, tree, isize, nwrites>>

\* Loop body: allocate k contiguous blocks at b, fill head and tail, copy
\* copied of bytes, append the entry at temp_tail and checksum the blocks.
CowWriteStep(b, k, copied, bufv, appended) ==
  LET offset    == w.pos % PageUnits
      start_blk == w.pos \div PageUnits
      bytes     == MinOf(PageUnits * k - offset, w.count)
      filled    == IF offset # 0 \/ (offset + bytes) % PageUnits # 0
                   THEN HandleHeadTailBlocks(mem, w.pos, bytes, b)
                   ELSE mem
      m2        == CopyPayload(filled, b, offset, copied, w.tag)
      cur       == w.temp_tail + 1
      entry     == [pgoff |-> start_blk, num_pages |-> k, block |-> b,
                    size |-> IF w.pos + copied > isize THEN w.pos + copied
                             ELSE isize]
      status    == IF copied # bytes THEN -EFAULT
                   ELSE IF copied > 0 THEN copied ELSE w.status
      w1        == IF copied > 0
                   THEN [w EXCEPT !.written = @ + copied, !.pos = @ + copied,
                                  !.count = @ - copied,
                                  !.num_blocks = @ - k, !.status = status]
                   ELSE [w EXCEPT !.status = status]
  IN
  /\ w.pc = "loop"
  /\ k \in 1 .. w.num_blocks
  /\ Run(b, k) \subseteq free
  /\ copied \in (IF ShortCopy THEN 0 .. bytes ELSE {bytes})
  /\ bufv \in (IF RacyBuffer THEN {w.tag, Scribble} ELSE {w.tag})
  /\ appended \in (IF AppendMayFail THEN BOOLEAN ELSE {TRUE})
  /\ cur \in LogPos
  /\ mem' = m2
  /\ IF ~appended
     THEN /\ WriteOut(free \ Run(b, k), SizeT(-ENOSPC), b, k)
          /\ UNCHANGED <<csum, log>>
     ELSE /\ log' = [log EXCEPT ![cur] = entry]
          /\ csum' = IF copied > 0
                     THEN UpdateCowCsum(csum, m2, b, bufv, offset, copied)
                     ELSE csum
          /\ w' = IF status < 0
                  THEN [w1 EXCEPT !.pc = "publish"]
                  ELSE [w1 EXCEPT !.pc = IF w1.num_blocks > 0 THEN "loop"
                                          ELSE "publish",
                                  !.begin_tail = IF @ = 0 THEN cur ELSE @,
                                  !.temp_tail = cur]
          /\ free' = free \ Run(b, k)
          /\ UNCHANGED ret
  /\ UNCHANGED <<logTail, tree, isize, nwrites>>

\* After the loop: publish the new tail, reassign the tree, extend i_size,
\* and return written (or the error of nova_reassign_file_tree).
CowWritePublish ==
  LET r == ReassignFileTree(w.begin_tail, w.temp_tail) IN
  /\ w.pc = "publish"
  /\ logTail' = w.temp_tail
  /\ IF r.err # 0
     THEN /\ WriteOut(free, SizeT(r.err), 0, 0)
          /\ UNCHANGED <<tree, isize>>
     ELSE /\ tree' = r.tree
          /\ isize' = IF w.pos > isize THEN w.pos ELSE isize
          /\ WriteOut(r.free, SizeT(w.written), 0, 0)
  /\ UNCHANGED <<mem, csum, log, nwrites>>

(* A power failure: DRAM is lost, PM survives.  The mount-time rebuild     *)
(* (outside src/) replays the published log: each page maps to the last    *)
(* published entry covering it, every block not so mapped is free, and     *)
(* i_size is the size recorded by the last published entry.               *)
LastCover(p, t) ==
  LET qs == {q \in 1 .. t : Covers(log[q], p)} IN
  IF qs = {} THEN 0 ELSE CHOOSE q \in qs : \A r \in qs : r <= q

RebuildTree(t) == [p \in Pages |-> LastCover(p, t)]

Crash ==
  LET t2 == RebuildTree(logTail) IN
  /\ tree' = t2
  /\ free' = Blocks \ {GetNvmm(log[t2[p]], p) : p \in {q \in Pages : t2[q] # 0}}
  /\ isize' = IF logTail = 0 THEN 0 ELSE log[logTail].size
  /\ w' = Idle
  /\ UNCHANGED <<mem, csum, log, logTail, ret, nwrites>>

Next ==
  \/ \E pos \in 0 .. FileLen - 1, len \in 1 .. FileLen, app \in BOOLEAN :
       CowWriteBegin(pos, len, app)
  \/ CowWriteAllocFail
  \/ \E b \in Blocks, k \in 1 .. NumPages, c \in 0 .. FileLen,
        bv \in {0, Scribble} \cup Tags, ok \in BOOLEAN :
       CowWriteStep(b, k, c, bv, ok)
  \/ CowWritePublish
  \/ Crash

Spec == Init /\ [][Next]_vars

-----------------------------------------------------------------------------
(* Properties *)

TypeOK ==
  /\ mem \in [Blocks -> [Units -> Data]]
  /\ csum \in [Blocks -> [Units -> Data] \cup {NoCsum}]
  /\ log \in [LogPos -> Entry]
  /\ logTail \in 0 .. MaxLog
  /\ tree \in [Pages -> 0 .. MaxLog]
  /\ free \subseteq Blocks
  /\ isize \in 0 .. FileLen
  /\ w.pc \in {"idle", "loop", "publish"}
  /\ w.num_blocks \in 0 .. NumPages
  /\ nwrites \in 0 .. MaxWrites

\* No block is both on the free list and mapped by the radix tree: the
\* per-page freeing in reassignment and the allocator never hand out a block
\* a reader can still reach.
FreeDisjointLive == free \cap LiveBlocks = {}

\* Every block a reader can reach has a checksum computed over exactly its
\* content, so nova_verify_data_csum passes on published data
\* (nova_update_cow_csum over head fill, payload and tail fill).
CsumMatchesLiveData ==
  \A p \in Pages : tree[p] # 0 =>
     csum[GetNvmm(log[tree[p]], p)] = mem[GetNvmm(log[tree[p]], p)]

\* Between write calls every block is either free or mapped: a failed
\* write returns the blocks it allocated (nova_cleanup_incomplete_write).
NoLeakedBlocks == w.pc = "idle" => free \cup LiveBlocks = Blocks
=============================================================================
