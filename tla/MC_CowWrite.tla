---------------------------- MODULE MC_CowWrite ----------------------------
(* Model-checking instance of CowWrite: constants, the refinement of       *)
(* FileAbs, and the bounds.                                                *)
EXTENDS CowWrite

MCNumPages  == 2
MCPageUnits == 2
MCMaxWrites == 3
MCMaxLog    == 6
MCWidth     == 8

\* The write call in flight, as FileAbs sees it.
NoReq == [tag |-> 0, pos |-> 0, len |-> 0]

AbsReq == IF w.pc = "idle" THEN NoReq
          ELSE [tag |-> w.tag, pos |-> w.pos0, len |-> w.len]

Abs == INSTANCE FileAbs WITH FileLen <- FileLen, Tags <- Tags,
         None <- NoReq, data <- Visible, size <- isize, req <- AbsReq,
         reply <- ret

\* The write path implements the atomic file of FileAbs: every published
\* write changes exactly the bytes it reports, a crash never changes what
\* a reader sees, and a failed call changes nothing.
AbsSpec == Abs!Spec
=============================================================================
