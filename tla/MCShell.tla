------------------------------ MODULE MCShell -------------------------------
EXTENDS Shell

Exec(prog) == [type |-> "EXEC", prog |-> prog]
Pipe(left, right) == [type |-> "PIPE", left |-> left, right |-> right]
List(left, right) == [type |-> "LIST", left |-> left, right |-> right]
Back(cmd) == [type |-> "BACK", cmd |-> cmd]
Redir(cmd, fd) == [type |-> "REDIR", cmd |-> cmd, fd |-> fd]

\* echo | wc, with a kill at any time; echo | cat | wc; echo | cat &;
\* (echo ; echo > f) | nosuchprogram; and pipelines of such programs for which
\* pipe() runs out of files, at either of the two, or of pages, and open() fails:
\* none | none | none | none and (none | (none | none) < f) < g > h.
MCSessions ==
  {[cmd |-> Pipe(Exec("echo"), Exec("wc")), kills |-> 1]} \cup
  {[cmd |-> c, kills |-> 0] :
     c \in {Pipe(Exec("echo"), Pipe(Exec("cat"), Exec("wc"))),
            Pipe(Exec("echo"), Back(Exec("cat"))),
            Pipe(List(Exec("echo"), Redir(Exec("echo"), 1)), Exec("none")),
            Pipe(Exec("none"), Pipe(Exec("none"), Pipe(Exec("none"), Exec("none")))),
            Redir(Redir(Pipe(Exec("none"), Redir(Pipe(Exec("none"), Exec("none")), 0)), 0), 1)}}
=============================================================================
