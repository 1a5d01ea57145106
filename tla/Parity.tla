------------------------------- MODULE Parity -------------------------------
(***************************************************************************)
(* NOVA data parity (src/unnamed/part_001 lines 1-392): the XOR parity     *)
(* stripe of a data block, the per-stripe checksums kept in two copies,    *)
(* their update after a write (generic and unrolled-by-8 code paths), the  *)
(* repair of one bad stripe (nova_restore_data) and the size of the parity *)
(* region reserved at mount.                                               *)
(*                                                                         *)
(* One physical block of NumStrps stripes of StrpWords qwords is modelled. *)
(* A qword is a small number and crc32c is modelled by the exact contents  *)
(* it covers, so two checksums agree exactly when their stripes do.  The   *)
(* unroll width (8 in the code) is the constant Unroll, so a scaled-down   *)
(* block can take the unrolled path.  Media errors (silent corruption of a *)
(* data stripe, a checksum copy or the parity stripe) may strike at any    *)
(* time; "injected" is the ghost set of the faults present.                *)
(***************************************************************************)
EXTENDS Integers, FiniteSets, Bitwise

CONSTANTS
    NumStrps,        \* sb->s_blocksize >> NOVA_STRIPE_SHIFT
    StrpWords,       \* NOVA_STRIPE_SIZE / 8
    Unroll,          \* the unroll width of nova_update_block_csum_parity
    Words,           \* values a qword can hold
    DataCsum,        \* the data_csum module parameter is > 0
    DataParity,      \* the data_parity module parameter is > 0
    SSE42,           \* static_cpu_has(X86_FEATURE_XMM4_2)
    AllocMayFail,    \* kmalloc may return NULL
    RecomputeFromPM, \* callers recompute parity from the block in NVMM
    MaxFaults,       \* most media errors present at once
    MaxTotal,        \* bound on total_blocks for the reservation check
    MaxCPUs,         \* bound on sbi->cpus for the reservation check
    None

ASSUME Words \subseteq {0, 1}

Strps    == 0 .. NumStrps - 1
WordIdx  == 0 .. StrpWords - 1
NumWords == NumStrps * StrpWords
BlockIdx == 0 .. NumWords - 1
Blocks   == [BlockIdx -> Words]
EIO      == 5
ENOMEM   == 12
Garbage  == -1
BadCsum  == [j \in WordIdx |-> Garbage]
Fails    == IF AllocMayFail THEN BOOLEAN ELSE {FALSE}
Sites    == ({"data"} \X Strps) \cup ({"csum"} \X Strps \X {0, 1}) \cup {<<"parity">>}

VARIABLES
    data,     \* the block in NVMM
    good,     \* ghost: the block as the file system last wrote it
    csum,     \* csum[c][s]: copy c of the checksum of stripe s
    parity,   \* the parity stripe of the block
    injected, \* ghost: media errors present
    last,     \* result of the last nova_restore_data, or None
    oops,     \* the kernel dereferenced a NULL buffer
    freeList  \* a CPU's free list after nova_data_parity_init_free_list

vars == <<data, good, csum, parity, injected, last, oops, freeList>>

\* Stripe s of a block, and a block with stripe s replaced.
Stripe(b, s) == [j \in WordIdx |-> b[s * StrpWords + j]]
SetStripe(b, s, st) ==
    [x \in BlockIdx |-> IF x \div StrpWords = s THEN st[x % StrpWords] ELSE b[x]]

\* nova_crc32c over a stripe.
Csum(st) == st

\* Mutant: the stripes are added instead of XORed.
XorOfStripesAdd(b, i, n) ==
    LET RECURSIVE Acc(_)
        Acc(strp) == IF strp = 0 THEN b[i] ELSE Acc(strp - 1) + b[strp * StrpWords + i]
    IN  Acc(n - 1)

\* Word i of the XOR of the first n stripes: xor = block[i]; xor ^= ...
XorOfStripes(b, i, n) ==
    LET RECURSIVE Acc(_)
        Acc(strp) == IF strp = 0 THEN b[i]
                     ELSE Acc(strp - 1) ^^ b[strp * StrpWords + i]
    IN  Acc(n - 1)

\* Mutant: the stripe loop stops one stripe early.
CalculateBlockParityOffByOne(b) == [i \in WordIdx |-> XorOfStripes(b, i, NumStrps - 1)]

\* nova_calculate_block_parity.
CalculateBlockParity(b) == [i \in WordIdx |-> XorOfStripes(b, i, NumStrps)]

\* nova_update_block_parity: the new parity stripe.  A kmalloc failure
\* leaves the old one (and the function still returns 0).
UpdateBlockParity(par, b, zero, fail) ==
    CASE fail -> par
      [] zero -> [i \in WordIdx |-> 0]
      [] OTHER -> CalculateBlockParity(b)

\* Word x of memory read through a pointer that may run past the block;
\* past it lies whatever the caller's buffer holds next (ext).
At(b, ext, x) == IF x \in BlockIdx THEN b[x] ELSE ext[x - NumWords]

\* The stripes the range [offset, offset + bytes) touches.
TouchedStrps(offset, bytes) == (offset \div StrpWords) .. ((offset + bytes - 1) \div StrpWords)

\* nova_update_block_csum (not in src/, from spec 4.1): both copies of the
\* checksum of every touched stripe, read from the block pointer p.
UpdateBlockCsum(cs, b, ext, p, offset, bytes) ==
    [c \in {0, 1} |-> [s \in Strps |->
        IF s \in TouchedStrps(offset, bytes)
        THEN Csum([j \in WordIdx |-> At(b, ext, p + s * StrpWords + j)])
        ELSE cs[c][s]]]

\* The unrolled loop: crc of every stripe, into both copies, and the XOR
\* of qword i of the Unroll stripes.
UnrolledCsum(b)   == [c \in {0, 1} |-> [s \in Strps |-> Csum(Stripe(b, s))]]
UnrolledParity(b) == [i \in WordIdx |-> XorOfStripes(b, i, Unroll)]

(***************************************************************************)
(* nova_update_block_csum_parity.  The unrolled path runs when the block   *)
(* has Unroll stripes and the range spans them all; it leaves "block"      *)
(* advanced by one stripe (block += 8, StrpWords times) and stores the     *)
(* parity buffer even when data_parity is 0 and the buffer is NULL.  A     *)
(* kmalloc failure jumps to out: and nothing is stored.                    *)
(***************************************************************************)
UpdateBlockCsumParity(cs, par, b, ext, offset, bytes, fail) ==
    LET numStrps     == ((offset % StrpWords) + bytes - 1) \div StrpWords + 1
        unrollParity == NumStrps = Unroll /\ numStrps = Unroll
        unrollCsum   == unrollParity /\ SSE42
        p            == IF unrollParity THEN StrpWords ELSE 0
        cs1  == IF unrollParity /\ DataCsum /\ unrollCsum THEN UnrolledCsum(b) ELSE cs
        par1 == IF unrollParity /\ DataParity THEN UnrolledParity(b) ELSE par
        cs2  == IF DataCsum /\ ~unrollCsum THEN UpdateBlockCsum(cs1, b, ext, p, offset, bytes) ELSE cs1
        par2 == IF DataParity /\ ~unrollParity THEN UpdateBlockParity(par1, b, FALSE, fail) ELSE par1
    IN  CASE unrollParity /\ DataParity /\ fail -> [csum |-> cs, parity |-> par, oops |-> FALSE]
          [] unrollParity /\ ~DataParity -> [csum |-> cs1, parity |-> par, oops |-> TRUE]
          [] OTHER -> [csum |-> cs2, parity |-> par2, oops |-> FALSE]

(***************************************************************************)
(* A write (the callers are not in src/; spec 4.1): the caller's DRAM      *)
(* buffer holds the healthy block with [offset, offset + bytes) changed;   *)
(* it is stored to NVMM and nova_update_block_csum_parity is called.       *)
(***************************************************************************)
WriteBlock ==
    /\ ~oops /\ injected = {}
    /\ \E offset \in BlockIdx, bytes \in 1 .. NumWords, nd \in Blocks,
          ext \in [WordIdx -> Words], fail \in Fails :
          /\ offset + bytes <= NumWords
          /\ \A x \in BlockIdx \ (offset .. offset + bytes - 1) : nd[x] = good[x]
          /\ LET r == UpdateBlockCsumParity(csum, parity, nd, ext, offset, bytes, fail)
             IN  /\ data' = nd /\ good' = nd
                 /\ csum' = r.csum /\ parity' = r.parity /\ oops' = r.oops
    /\ last' = None
    /\ UNCHANGED <<injected, freeList>>

\* nova_update_pgoff_parity: parity recomputed from the block in NVMM, or
\* zeroed when the caller says the block is zero-filled.
UpdatePgoffParity ==
    /\ RecomputeFromPM /\ ~oops
    /\ \E zero \in {FALSE} \cup {z \in {TRUE} : \A x \in BlockIdx : good[x] = 0},
          fail \in Fails :
          parity' = UpdateBlockParity(parity, data, zero, fail)
    /\ last' = None
    /\ UNCHANGED <<data, good, csum, injected, oops, freeList>>

\* nova_update_truncated_block_parity: block = nvmm_addr (the copy to DRAM
\* that would catch a media error is commented out).
TruncatedBlockParity ==
    /\ RecomputeFromPM /\ ~oops
    /\ \E fail \in Fails : parity' = UpdateBlockParity(parity, data, FALSE, fail)
    /\ last' = None
    /\ UNCHANGED <<data, good, csum, injected, oops, freeList>>

\* Mutant: the second comparison reads csum_nvmm for csum_calc.
RestoreMatchCopyTypo(s, stripe) == csum[0][s] = Csum(stripe) \/ csum[0][s] = csum[1][s]

\* The reconstructed stripe matches either checksum copy.
RestoreMatch(s, stripe) == csum[0][s] = Csum(stripe) \/ csum[1][s] = Csum(stripe)

(***************************************************************************)
(* nova_restore_data(blocknr, s): copy the block to DRAM with the parity   *)
(* in place of stripe s, XOR it into a candidate stripe, and write that    *)
(* over stripe s if it matches either checksum copy.                       *)
(***************************************************************************)
RestoreData(s) ==
    /\ ~oops
    /\ \E fail \in Fails :
          LET stripe == CalculateBlockParity(SetStripe(data, s, parity))
              ok     == ~fail /\ RestoreMatch(s, stripe)
          IN  /\ data' = IF ok THEN SetStripe(data, s, stripe) ELSE data
              /\ injected' = IF ok THEN injected \ {<<"data", s>>} ELSE injected
              /\ last' = [strp |-> s,
                          ret |-> CASE fail -> -ENOMEM [] ok -> 0 [] OTHER -> -EIO]
    /\ UNCHANGED <<good, csum, parity, oops, freeList>>

\* Media errors: a stripe, a checksum copy or the parity silently changes.
Faulty(site) == /\ ~oops /\ site \notin injected /\ Cardinality(injected) < MaxFaults
                /\ injected' = injected \cup {site} /\ last' = None

StripeFault(s) ==
    /\ Faulty(<<"data", s>>)
    /\ \E st \in [WordIdx -> Words] \ {Stripe(data, s)} : data' = SetStripe(data, s, st)
    /\ UNCHANGED <<good, csum, parity, oops, freeList>>

CsumFault(s, c) ==
    /\ Faulty(<<"csum", s, c>>)
    /\ csum' = [csum EXCEPT ![c][s] = BadCsum]
    /\ UNCHANGED <<data, good, parity, oops, freeList>>

ParityFault ==
    /\ Faulty(<<"parity">>)
    /\ parity' \in [WordIdx -> Words] \ {parity}
    /\ UNCHANGED <<data, good, csum, oops, freeList>>

(***************************************************************************)
(* nova_data_parity_init_free_list, at mount: the parity blocks needed for *)
(* a device of "total" blocks (one parity stripe per data block, NumStrps  *)
(* stripes per parity block), rounded up, then split over the CPUs'        *)
(* free lists, rounded up.                                                 *)
(***************************************************************************)
CeilDiv(a, b) == a \div b + (IF a % b # 0 THEN 1 ELSE 0)
ParityBlocks(total) == CeilDiv(total, NumStrps + 1)

\* Mutant: the per-CPU share is rounded down.
DataParityInitFreeListFloor(fl) ==
    [fl EXCEPT !.parity_start = fl.block_start,
               !.block_start = fl.block_start + ParityBlocks(fl.total) \div fl.cpus,
               !.num_parity_blocks = ParityBlocks(fl.total) \div fl.cpus]

DataParityInitFreeList(fl) ==
    LET bs == fl.block_start + CeilDiv(ParityBlocks(fl.total), fl.cpus)
    IN  [fl EXCEPT !.parity_start = fl.block_start, !.block_start = bs,
                   !.num_parity_blocks = bs - fl.block_start]

Init ==
    /\ \E total \in 1 .. MaxTotal, cpus \in 1 .. MaxCPUs :
          freeList = DataParityInitFreeList([total |-> total, cpus |-> cpus,
              block_start |-> 0, parity_start |-> 0, num_parity_blocks |-> 0])
    /\ \E d \in Blocks :
        /\ data = d /\ good = d
        /\ csum = UnrolledCsum(d)
        /\ parity = CalculateBlockParity(d)
        /\ injected = {} /\ last = None /\ oops = FALSE

Next ==
    \/ WriteBlock
    \/ UpdatePgoffParity
    \/ TruncatedBlockParity
    \/ \E s \in Strps : RestoreData(s) \/ StripeFault(s)
    \/ \E s \in Strps, c \in {0, 1} : CsumFault(s, c)
    \/ ParityFault

Spec == Init /\ [][Next]_vars

-----------------------------------------------------------------------------
TypeOK ==
    /\ data \in Blocks /\ good \in Blocks
    /\ csum \in [{0, 1} -> [Strps -> [WordIdx -> Words \cup {Garbage}]]]
    /\ parity \in [WordIdx -> Words]
    /\ injected \subseteq Sites
    /\ last \in {None} \cup [strp : Strps, ret : {0, -EIO, -ENOMEM}]
    /\ oops \in BOOLEAN
    /\ freeList.num_parity_blocks \in Nat

\* nova_restore_data returns 0 only after writing back the stripe the file
\* system last wrote there: a stale or corrupt parity or checksum never
\* makes it install other data.
RestoreOnlyWrittenData ==
    last # None /\ last.ret = 0 => Stripe(data, last.strp) = Stripe(good, last.strp)

\* Spec 4.1/8: with one bad data stripe, and the parity the XOR of the
\* block as written, nova_restore_data of that stripe (or of a healthy one)
\* succeeds: the checksums the write stored must match the reconstruction.
SingleFaultRecoverable ==
    /\ last # None
    /\ injected \subseteq {<<"data", last.strp>>}
    /\ parity = CalculateBlockParity(good)
    => last.ret = 0

\* The parity region reserved by nova_data_parity_init_free_list on every
\* CPU holds a parity stripe for each data block left, and the device-wide
\* count is the least that does (the reference: the least P with
\* P * NumStrps >= total - P).
ParityRegionSuffices ==
    LET total    == freeList.total
        reserved == freeList.cpus * freeList.num_parity_blocks
        least    == CHOOSE q \in 0 .. total : /\ q * NumStrps >= total - q
                                             /\ \A r \in 0 .. q - 1 : r * NumStrps < total - r
    IN  /\ reserved * NumStrps >= total - reserved
        /\ ParityBlocks(total) = least
====
