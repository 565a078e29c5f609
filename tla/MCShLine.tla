------------------------------ MODULE MCShLine ------------------------------
(* The line editor with the characters of "cd " and one letter for paths,  *)
(* in a directory that holds "." and ".." only.                             *)
EXTENDS ShLine

cd == <<"c", "d", " ">>
Directory == <<<<".">>, <<".", ".">>>>
=============================================================================
