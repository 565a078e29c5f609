------------------------------ MODULE MCConsole ------------------------------
EXTENDS Console, TLC

Sym == Permutations(Reader)
=============================================================================
