------------------------------- MODULE MCLog -------------------------------
(* Small instances of Log: two or three processes, two or three blocks.     *)
EXTENDS Log
=============================================================================
