----------------------------- MODULE MC_Parity -----------------------------
(* Model-checking instance of Parity: a block of two stripes of two 1-bit  *)
(* qwords, the unroll width scaled to two stripes.                         *)
EXTENDS Parity, TLC

MCWords == {0, 1}
====
