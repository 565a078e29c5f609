------------------------------ MODULE MCFileSys ------------------------------
(***************************************************************************)
(* Two processes whose calls meet on two directories and a file.  They     *)
(* start in the root directory, or one of them in a directory below        *)
(* another one.                                                            *)
(***************************************************************************)
EXTENDS FileSys

Dir(self, parent, links) ==
  [type |-> "dir", nlink |-> links, ent |-> [NoEntries EXCEPT !["."] = self, ![".."] = parent]]
AFile == [NoInode EXCEPT !.type = "file", !.nlink = 1]

Flat ==
  [image |-> <<[Dir(1, 1, 2) EXCEPT !.ent["a"] = 2, !.ent["b"] = 3], Dir(2, 1, 1), AFile, NoInode>>,
   cwd |-> <<1, 1>>]
Nested ==
  [image |-> <<[Dir(1, 1, 2) EXCEPT !.ent["a"] = 2], [Dir(2, 1, 2) EXCEPT !.ent["b"] = 3],
               Dir(3, 2, 1), NoInode>>,
   cwd |-> <<3, 1>>]
MCStarts == {Flat, Nested}

Call(op, path) == [op |-> op, abs |-> FALSE, path |-> path, to |-> <<>>, rdonly |-> FALSE]
MCCalls ==
  {Call("mkdir", <<"a">>), Call("unlink", <<"a">>), Call("chdir", <<"a">>),
   Call("create", <<".", "b">>), Call("unlink", <<"b">>), Call("open", <<"b">>),
   Call("mkdir", <<"a", "b">>), [Call("link", <<"b">>) EXCEPT !.to = <<"a", "b">>],
   Call("unlink", <<"a", "b">>), Call("chdir", <<"..">>),
   Call("mknod", <<>>), [Call("exec", <<>>) EXCEPT !.abs = TRUE]}
=============================================================================
