--------------------------- MODULE MC_MmapFault ---------------------------
(* Model-checking instance of MmapFault: the CowWrite bounds.              *)
EXTENDS MmapFault

MCNumPages  == 2
MCPageUnits == 2
MCMaxWrites == 2
MCMaxLog    == 4
MCWidth     == 8
====
