--------------------------- MODULE MC_ReadEngine ---------------------------
(* Model-checking instance of ReadEngine: the CowWrite bounds and one read. *)
EXTENDS ReadEngine

MCNumPages  == 2
MCPageUnits == 1
MCMaxWrites == 3
MCMaxLog    == 3
MCWidth     == 8
====
