----------------------------- MODULE MCFileData -----------------------------
(***************************************************************************)
(* Two processes and two files, of up to one direct and two indirect       *)
(* blocks, on a disk that two files fill.  Each bitmap block holds one     *)
(* bit, the worst case for the log.                                        *)
(***************************************************************************)
EXTENDS FileDataProofs, TLC

MCFileSizes == <<1, 0>>
Sym == Permutations(Proc)

(* The hypothesis of FileDataProofs, for these files. *)
ASSUME MCImageConsistent == ImageConsistent
=============================================================================
