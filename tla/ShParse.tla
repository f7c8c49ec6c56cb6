------------------------------ MODULE ShParse -------------------------------
(***************************************************************************)
(* The recursive-descent parser of sh.c, from gettoken() to nulterminate().*)
(* A command line is a sequence of characters; "a" stands for any that is  *)
(* neither white space nor a symbol.  A parser state is the position s in  *)
(* the line; a parse gives the tree and the position after it, or fails    *)
(* where the shell calls panic().  Words are kept as <<q, eq>>, the first  *)
(* position and the one after the last.                                    *)
(***************************************************************************)
EXTENDS Integers, Sequences, FiniteSets, SequencesExt

CONSTANTS
  MAXARGS,
  MaxLength      \* bound: length of a command line

whitespace == {" "}
symbols == {"<", "|", ">", "&", ";", "(", ")"}
Alphabet == {"a"} \cup whitespace \cup symbols
NUL == "NUL"

\* *s, which is NUL at es.
Char(line, s) == IF s <= Len(line) THEN line[s] ELSE NUL
\* The first position from s on whose character is not in C.
RECURSIVE Skip(_, _, _)
Skip(line, s, C) == IF Char(line, s) \in C THEN Skip(line, s + 1, C) ELSE s

WordEnd(line, s) == Skip(line, s, {"a"})

\* gettoken(): what it is, where it begins and ends, and the position after it.
gettoken(line, s0) ==
  LET Token(tok, q, eq) == [tok |-> tok, q |-> q, eq |-> eq, s |-> Skip(line, eq, whitespace)]
      From(q) ==
        CASE Char(line, q) = NUL -> Token(NUL, q, q)
          [] Char(line, q) \in symbols ->
               IF Char(line, q) = ">" /\ Char(line, q + 1) = ">" THEN Token("+", q, q + 2)
               ELSE Token(Char(line, q), q, q + 1)
          [] OTHER -> Token("a", q, WordEnd(line, q))
  IN From(Skip(line, s0, whitespace))
peek(line, s, toks) == Char(line, Skip(line, s, whitespace)) \in toks

-----------------------------------------------------------------------------
Syntax == [ok |-> FALSE]
Parsed(cmd, s) == [ok |-> TRUE, cmd |-> cmd, s |-> s]
execcmd(argv) == [type |-> "EXEC", argv |-> argv]
redircmd(cmd, q, eq, tok) == [type |-> "REDIR", cmd |-> cmd, file |-> <<q, eq>>, tok |-> tok]
pipecmd(left, right) == [type |-> "PIPE", left |-> left, right |-> right]
listcmd(left, right) == [type |-> "LIST", left |-> left, right |-> right]
backcmd(cmd) == [type |-> "BACK", cmd |-> cmd]

RECURSIVE parseline(_, _), parsepipe(_, _), parseredirs(_, _, _), parseargs(_, _, _, _), Backs(_, _, _)

parseredirs(cmd, line, s) ==
  LET Redir(op, f) == IF f.tok # "a" THEN Syntax
                      ELSE parseredirs(redircmd(cmd, f.q, f.eq, op.tok), line, f.s)
      To(op) == Redir(op, gettoken(line, op.s))
  IN IF peek(line, s, {"<", ">"}) THEN To(gettoken(line, s)) ELSE Parsed(cmd, s)

\* parseexec()'s loop.  The execcmd is filled in place under the redirections
\* that already enclose it, so they are kept apart in wrap until the end.
Rewrap(wrap, cmd) == FoldLeft(LAMBDA c, x : redircmd(c, x.file[1], x.file[2], x.tok), cmd, wrap)
RECURSIVE Unwrap(_)
Unwrap(cmd) == IF cmd.type = "REDIR" THEN Append(Unwrap(cmd.cmd), [file |-> cmd.file, tok |-> cmd.tok])
               ELSE <<>>
parseargs(argv, wrap, line, s) ==
  LET More(t, more) ==
        IF ~more.ok THEN Syntax
        ELSE parseargs(Append(argv, <<t.q, t.eq>>), wrap \o Unwrap(more.cmd), line, more.s)
      Word(t) ==
        IF t.tok = NUL THEN Parsed(Rewrap(wrap, execcmd(argv)), s)
        ELSE IF t.tok # "a" \/ Len(argv) + 1 >= MAXARGS THEN Syntax
        ELSE More(t, parseredirs(execcmd(<<>>), line, t.s))
  IN IF peek(line, s, {"|", ")", "&", ";"}) THEN Parsed(Rewrap(wrap, execcmd(argv)), s)
     ELSE Word(gettoken(line, s))

parseblock(line, s) ==
  LET Close(body) ==
        IF ~body.ok \/ ~peek(line, body.s, {")"}) THEN Syntax
        ELSE parseredirs(body.cmd, line, gettoken(line, body.s).s)
  IN Close(parseline(line, gettoken(line, s).s))

parseexec(line, s) ==
  LET Args(first) == IF ~first.ok THEN Syntax
                     ELSE parseargs(<<>>, Unwrap(first.cmd), line, first.s)
  IN IF peek(line, s, {"("}) THEN parseblock(line, s)
     ELSE Args(parseredirs(execcmd(<<>>), line, s))

parsepipe(line, s) ==
  LET Join(left, right) == IF ~right.ok THEN Syntax
                           ELSE Parsed(pipecmd(left.cmd, right.cmd), right.s)
      After(left) == IF ~left.ok \/ ~peek(line, left.s, {"|"}) THEN left
                     ELSE Join(left, parsepipe(line, gettoken(line, left.s).s))
  IN After(parseexec(line, s))

Backs(cmd, line, s) ==
  IF peek(line, s, {"&"}) THEN Backs(backcmd(cmd), line, gettoken(line, s).s) ELSE Parsed(cmd, s)
parseline(line, s) ==
  LET Join(left, right) == IF ~right.ok THEN Syntax
                           ELSE Parsed(listcmd(left.cmd, right.cmd), right.s)
      After(left) == IF ~peek(line, left.s, {";"}) THEN left
                     ELSE Join(left, parseline(line, gettoken(line, left.s).s))
      Back(first) == IF ~first.ok THEN Syntax ELSE After(Backs(first.cmd, line, first.s))
  IN Back(parsepipe(line, s))

\* Mutant: what follows a complete command is ignored.
parsecmdLax(line) == parseline(line, 1)
parsecmd(line) ==
  LET All(r) == IF ~r.ok \/ Skip(line, r.s, whitespace) <= Len(line) THEN Syntax ELSE r
  IN All(parseline(line, 1))

\* The words of a tree, and the positions where nulterminate() writes a NUL.
RECURSIVE Words(_), nulterminate(_)
Words(cmd) ==
  CASE cmd.type = "EXEC" -> cmd.argv
    [] cmd.type = "REDIR" -> Append(Words(cmd.cmd), cmd.file)
    [] cmd.type \in {"PIPE", "LIST"} -> Words(cmd.left) \o Words(cmd.right)
    [] cmd.type = "BACK" -> Words(cmd.cmd)
nulterminate(cmd) ==
  CASE cmd.type = "EXEC" -> {x[2] : x \in Range(cmd.argv)}
    [] cmd.type = "REDIR" -> nulterminate(cmd.cmd) \cup {cmd.file[2]}
    [] cmd.type \in {"PIPE", "LIST"} -> nulterminate(cmd.left) \cup nulterminate(cmd.right)
    [] cmd.type = "BACK" -> nulterminate(cmd.cmd)

-----------------------------------------------------------------------------
\* The reference: the grammar, over the symbols and words of a line.
\*   line ::= pipe &* [; line]    pipe ::= exec [| pipe]
\*   exec ::= ( line ) redir*  or a mix of fewer than MAXARGS words and redirs
RECURSIVE Scan(_)
Scan(line) ==
  IF line = <<>> THEN <<>>
  ELSE IF Head(line) = "a"
       THEN LET n == Min({k \in 1..Len(line) : k = Len(line) \/ line[k + 1] # "a"})
            IN <<"a">> \o Scan(SubSeq(line, n + 1, Len(line)))
       ELSE IF Head(line) = " " THEN Scan(Tail(line))
       ELSE IF Len(line) > 1 /\ SubSeq(line, 1, 2) = <<">", ">">>
            THEN <<">">> \o Scan(SubSeq(line, 3, Len(line)))
       ELSE <<Head(line)>> \o Scan(Tail(line))

Cuts(t, Left(_), Right(_)) ==
  \E k \in 0..Len(t) : Left(SubSeq(t, 1, k)) /\ Right(SubSeq(t, k + 1, Len(t)))
IsRedirs(t) ==
  Len(t) % 2 = 0 /\ \A k \in DOMAIN t : IF k % 2 = 1 THEN t[k] \in {"<", ">"} ELSE t[k] = "a"
IsSimple(t) ==
  /\ Range(t) \subseteq {"a", "<", ">"}
  /\ \A k \in DOMAIN t : t[k] # "a" => k < Len(t) /\ t[k + 1] = "a"
  /\ Cardinality({k \in DOMAIN t : t[k] = "a"}) - Cardinality({k \in DOMAIN t : t[k] # "a"}) < MAXARGS
RECURSIVE IsLine(_), IsPipe(_)
IsExec(t) ==
  \/ IsSimple(t)
  \/ /\ t # <<>> /\ Head(t) = "("
     /\ Cuts(Tail(t), IsLine, LAMBDA u : u # <<>> /\ Head(u) = ")" /\ IsRedirs(Tail(u)))
IsPipe(t) == IsExec(t) \/ Cuts(t, IsExec, LAMBDA u : u # <<>> /\ Head(u) = "|" /\ IsPipe(Tail(u)))
IsAmps(t) == Range(t) \subseteq {"&"}
IsLine(t) ==
  Cuts(t, IsPipe, LAMBDA u : \/ IsAmps(u)
                             \/ Cuts(u, IsAmps, LAMBDA v : v # <<>> /\ Head(v) = ";" /\ IsLine(Tail(v))))

\* The words of a line in order, as <<first, past the last>>.
WordsOf(line) ==
  {<<q, e>> \in (1..Len(line)) \X (2..(Len(line) + 1)) :
     /\ q < e /\ \A k \in q..(e - 1) : line[k] = "a"
     /\ (q > 1 => line[q - 1] # "a") /\ (e <= Len(line) => line[e] # "a")}

-----------------------------------------------------------------------------
VARIABLE typed    \* the command line
vars == <<typed>>
Init == typed = <<>>
type(c) == Len(typed) < MaxLength /\ typed' = Append(typed, c)
getcmd == typed' = <<>>
Next == (\E c \in Alphabet : type(c)) \/ getcmd
Spec == Init /\ [][Next]_vars

\* parsecmd() accepts exactly the command lines of the grammar, though gettoken()
\* and peek() look at single characters and parseexec() takes whatever follows.
\* Every word of an accepted line, argument or file name, is in the tree exactly
\* once, and the NULs that nulterminate() writes over the line end each word at
\* its end and hit no other.
ParsesTheGrammar ==
  \A r \in {parsecmd(typed)} :
     /\ r.ok <=> IsLine(Scan(typed))
     /\ r.ok => \A words \in {Words(r.cmd)}, nuls \in {nulterminate(r.cmd)} :
                  /\ Range(words) = WordsOf(typed) /\ IsInjective(words)
                  /\ \A x \in Range(words) :
                       x[2] \in nuls /\ nuls \cap (x[1]..(x[2] - 1)) = {}
=============================================================================
