------------------------------- MODULE MCProc -------------------------------
(* Small instances of Proc: four slots are enough for a grandchild whose    *)
(* parent exits while init sleeps and another child of init runs.           *)
EXTENDS Proc
=============================================================================
