----------------------------- MODULE ReadEngine -----------------------------
(***************************************************************************)
(* The lock-free DAX read path of src/dax.c (nova_dax_file_read,           *)
(* do_dax_mapping_read, nova_verify_data_csum) composed with the           *)
(* copy-on-write write path of CowWrite.  The reader takes no lock (the    *)
(* rcu_read_lock of nova_dax_file_read is commented out), so each step of  *)
(* its page loop may fall between any two steps of a writer.  One loop     *)
(* iteration is three steps: resolve the page through the radix tree,      *)
(* verify the checksums of the blocks it will copy, copy them.  The ghost  *)
(* field pend records the bytes the resolved blocks held at resolution.    *)
(***************************************************************************)
EXTENDS CowWrite, Sequences

CONSTANTS CsumBase,   \* NOVA_SB(sb)->block_csum_base: data checksums are on
          MaxReads    \* bound on read calls

EIO == 5

VARIABLES rd,      \* the reader's locals and its last result
          nreads   \* read calls started so far

allVars == <<vars, rd, nreads>>

RIdle == [pc |-> "idle", len |-> 0, isz |-> 0, index |-> 0, offset |-> 0,
          copied |-> 0, err |-> 0, nr |-> 0, blk |-> 0, zero |-> FALSE,
          pend |-> <<>>, snap |-> <<>>, buf |-> <<>>, ret |-> 0]

\* entry->reassigned: some page the entry covers maps to a later entry
\* (set by nova_assign_write_entry, outside src/).
Reassigned(q) == \E p \in Pages : Covers(log[q], p) /\ tree[p] # q

\* Byte i of the chunk starting at byte offset of the run at block blk.
ChunkByte(m, blk, offset, i) ==
  m[blk + (offset + i) \div PageUnits][(offset + i) % PageUnits]

\* The chunk of nr bytes as it reads now: from the blocks, or zero for a hole.
Chunk(r) == [i \in 1 .. r.nr |->
               IF r.zero THEN 0 ELSE ChunkByte(mem, r.blk, r.offset, i - 1)]

\* out: of do_dax_mapping_read: return copied, or the error if none.
ReadOut(r) == [r EXCEPT !.pc = "done",
                        !.ret = IF r.copied # 0 THEN r.copied ELSE r.err]

\* do_dax_mapping_read up to the loop: access_ok, the i_size snapshot and
\* the clamp of len (size_t against loff_t: no clamp when pos > i_size).
ReadBegin(pos, len, ok) ==
  LET n == IF pos <= isize /\ len > isize - pos THEN isize - pos ELSE len
      r == [RIdle EXCEPT !.len = n, !.isz = isize, !.index = pos \div PageUnits,
                         !.offset = pos % PageUnits]
  IN
  /\ rd.pc \in {"idle", "done"} /\ nreads < MaxReads
  /\ nreads' = nreads + 1
  /\ rd' = CASE ~ok            -> ReadOut([RIdle EXCEPT !.err = -EFAULT])
             [] isize = 0 \/ n = 0 -> ReadOut(RIdle)
             [] OTHER          -> [r EXCEPT !.pc = "resolve"]
  /\ UNCHANGED vars

\* Head of the loop: the end-of-file test, nova_get_write_entry, the
\* contiguous run of the entry, get_nvmm, and the clamp of nr.
ReadResolve ==
  LET r == rd
      endIndex == (r.isz - 1) \div PageUnits
      q == tree[r.index]
      nr0 == IF q = 0 \/ Reassigned(q) THEN PageUnits
             ELSE (log[q].num_pages - (r.index - log[q].pgoff)) * PageUnits
      nr == MinOf(nr0 - r.offset, r.len - r.copied)
      r1 == [r EXCEPT !.nr = nr, !.zero = (q = 0),
                      !.blk = IF q = 0 THEN 0 ELSE GetNvmm(log[q], r.index)]
  IN
  /\ r.pc = "resolve"
  /\ rd' = IF \/ r.index > endIndex
              \/ r.index = endIndex /\ ((r.isz - 1) % PageUnits) + 1 <= r.offset
           THEN ReadOut(r)
           ELSE [r1 EXCEPT !.pc = "verify", !.pend = Chunk(r1)]
  /\ UNCHANGED <<vars, nreads>>

\* nova_verify_data_csum: each of blocks blocks from blk against its stored
\* checksum (the loop stops at the first mismatch; the result is the same).
VerifyDataCsum(blk, blocks) ==
  \A k \in 0 .. blocks - 1 : csum[blk + k] = mem[blk + k]

\* The checksum test of the loop over the whole blocks of the chunk; a
\* mismatch ends the read with -EIO.
ReadVerify ==
  LET r == rd
      csumBlks == ((r.offset + r.nr - 1) \div PageUnits) + 1
  IN
  /\ r.pc = "verify"
  /\ rd' = IF ~r.zero /\ CsumBase /\ ~VerifyDataCsum(r.blk, csumBlks)
           THEN ReadOut([r EXCEPT !.err = -EIO])
           ELSE [r EXCEPT !.pc = "copy"]
  /\ UNCHANGED <<vars, nreads>>

\* __copy_to_user (or __clear_user for a hole) of the chunk, then the
\* advance of copied, offset and index; a fault of the user buffer ends
\* the read with -EFAULT.
ReadCopy(ok) ==
  LET r == rd
      off == r.offset + r.nr
      r1 == [r EXCEPT !.copied = r.copied + r.nr,
                      !.offset = off % PageUnits,
                      !.index = r.index + off \div PageUnits,
                      !.snap = r.snap \o r.pend,
                      !.buf = r.buf \o Chunk(r)]
  IN
  /\ r.pc = "copy"
  /\ rd' = CASE ~ok                -> ReadOut([r EXCEPT !.err = -EFAULT])
             [] r1.copied < r1.len -> [r1 EXCEPT !.pc = "resolve"]
             [] OTHER              -> ReadOut(r1)
  /\ UNCHANGED <<vars, nreads>>

\* A power failure ends the read along with everything else.
CrashRead == Crash /\ rd' = RIdle /\ UNCHANGED nreads

RInit == Init /\ rd = RIdle /\ nreads = 0

WriterNext ==
  \/ \E pos \in 0 .. FileLen - 1, len \in 1 .. FileLen, app \in BOOLEAN :
       CowWriteBegin(pos, len, app)
  \/ CowWriteAllocFail
  \/ \E b \in Blocks, k \in 1 .. NumPages, c \in 0 .. FileLen,
        bv \in {0, Scribble} \cup Tags, ok \in BOOLEAN :
       CowWriteStep(b, k, c, bv, ok)
  \/ CowWritePublish

RNext ==
  \/ WriterNext /\ UNCHANGED <<rd, nreads>>
  \/ \E pos \in 0 .. FileLen, len \in 1 .. FileLen, ok \in BOOLEAN :
       ReadBegin(pos, len, ok)
  \/ ReadResolve
  \/ ReadVerify
  \/ \E ok \in BOOLEAN : ReadCopy(ok)
  \/ CrashRead

RSpec == RInit /\ [][RNext]_allVars

\* A read never returns bytes other than those the blocks it resolved held
\* when it resolved them: nothing from beneath a log entry changes while a
\* lock-free reader copies from it (spec 5: no torn data).
ReadNotTorn == rd.pc = "done" => rd.buf = rd.snap
====
