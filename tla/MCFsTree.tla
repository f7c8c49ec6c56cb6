------------------------------ MODULE MCFsTree ------------------------------
(* Two processes and a tree of the names a and d for TLC.                    *)
EXTENDS FsTree

Abs(names) == [abs |-> TRUE, elems |-> names]
Rel(names) == [abs |-> FALSE, elems |-> names]
MCNames == {"a", "d"}

Create == [op |-> "create", path |-> Abs(<<"d", "a">>), omode |-> "O_RDWR"]
Unlink == [op |-> "unlink", path |-> Abs(<<"d", "a">>)]
Link == [op |-> "link", path |-> Abs(<<"d", "a">>), new |-> Abs(<<"a">>)]
Close == [op |-> "close"]
Mkdir == [op |-> "mkdir", path |-> Abs(<<"d">>)]
Rmdir == [op |-> "unlink", path |-> Abs(<<"d">>)]
Chdir == [op |-> "chdir", path |-> Abs(<<"d">>)]
OpenUp == [op |-> "open", path |-> Rel(<<"..", "a">>), omode |-> "O_RDONLY"]
Top == Abs(<<"a">>)
\* Calls with the wrong type of file.
OpenDir == [op |-> "open", path |-> Abs(<<"d">>), omode |-> "O_RDWR"]
LinkDir == [op |-> "link", path |-> Abs(<<"d">>), new |-> Top]
ChdirFile == [op |-> "chdir", path |-> Top]

\* One process works on the file, the other on its directory.
MCCalls ==
  1 :> {Create, Unlink, Link, Close, OpenDir, LinkDir} @@
  2 :> {Mkdir, Rmdir, Chdir, OpenUp, ChdirFile}

\* The calls of the test linkunlink(): both processes work on the same name.
SameName ==
  1 :> {[op |-> "create", path |-> Top, omode |-> "O_RDWR"], Close} @@
  2 :> {[op |-> "unlink", path |-> Top]}
=============================================================================
