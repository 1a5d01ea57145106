--------------------------- MODULE MC_LiteJournal ---------------------------
(***************************************************************************)
(* Model-checking instance of LiteJournal: one or two CPUs, a four-entry   *)
(* ring (so a three-entry rename transaction wraps on the next one), two   *)
(* inodes, one raw field and two values.                                   *)
(***************************************************************************)
EXTENDS LiteJournal, TLC

CONSTANTS i1, i2, f1

MCInodes == {i1, i2}
MCFields == {f1}
MCVals   == {0, 1}

\* The ADR pass run leaves out raw fields (the eADR run covers them).
MCNoFields == {}

\* Nothing in the model distinguishes one inode from another.
InodeSymmetry == Permutations(MCInodes)

\* Under eADR a crash keeps vmem, so pmem and flushed never influence any
\* other variable: states that differ only in them behave alike.
EADRView == <<vmem, alter, txn, mount, committed>>
=============================================================================
