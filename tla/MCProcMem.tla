----------------------------- MODULE MCProcMem -----------------------------
(***************************************************************************)
(* Two process slots and enough memory for two small processes, so that    *)
(* forks, execs and sbrks run out of it at every page they allocate.       *)
(***************************************************************************)
EXTENDS ProcMem

MCPage == 1 .. 19
MCDeltas == {6, -6}

(* A program with a second segment inside the first one's page, one whose  *)
(* second segment is malformed, and one whose file is too short.           *)
Seg(va, mem, file, w, short) ==
  [vaddr |-> va, memsz |-> mem, filesz |-> file, w |-> w, short |-> short]
MCPrograms == {<<Seg(0, 3, 3, FALSE, FALSE), Seg(0, 2, 2, TRUE, FALSE)>>,
               <<Seg(0, 2, 2, TRUE, FALSE), Seg(2, 1, 1, TRUE, FALSE)>>,
               <<Seg(0, 5, 2, TRUE, TRUE)>>}

(* Arguments that fit the stack, that do not, and too many of them. *)
MCArgs == {<<1>>, <<2>>, <<1, 1>>}
=============================================================================
