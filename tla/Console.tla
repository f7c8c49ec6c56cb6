------------------------------ MODULE Console -------------------------------
(***************************************************************************)
(* The console's input: the ring that consoleintr() edits and consoleread()*)
(* empties (console.c), and gets() of ulib.c, which reads a line one       *)
(* character at a time.  cons.lock makes each handler, and each stretch of *)
(* consoleread() up to a sleep(), one step.  Echo is left out.             *)
(***************************************************************************)
EXTENDS Integers, Sequences, FiniteSets, SequencesExt

CONSTANTS
  Readers,      \* processes that read from the console
  Chars,        \* plain characters
  INPUT_BUF,    \* size of the ring
  UintMod,      \* the indices are unsigned modulo this, a multiple of INPUT_BUF
  MaxLine,      \* the buffer size passed to gets()
  Shells,       \* the readers that read lines with gets()
  ReadSizes     \* lengths the others pass to read()

Newline == "newline"
CtrlD == "ctrl-D"
Keys == Chars \cup {Newline, CtrlD, "ctrl-U", "ctrl-H", "ctrl-P", "nul"}

VARIABLES
  buf, r, w, e,   \* struct input
  rd,             \* per reader: its place in a read
  killed,         \* readers with p->killed
  text            \* what the user has typed and edited, and nobody has read
ring == <<buf, r, w, e>>
vars == <<ring, rd, killed, text>>

NotReading == [at |-> "user", n |-> 0, target |-> 0, got |-> <<>>, line |-> <<>>, max |-> 0]
Init ==
  /\ buf = [k \in 0..(INPUT_BUF - 1) |-> "nul"] /\ r = 0 /\ w = 0 /\ e = 0
  /\ rd = [p \in Readers |-> NotReading] /\ killed = {} /\ text = <<>>

Plus(a, b) == (a + b) % UintMod
Dist(a, b) == (b - a) % UintMod       \* b - a, unsigned
At(k) == buf[k % INPUT_BUF]
\* The characters from index a up to index b, as a sequence.
Span(a, b) == [k \in 1..Dist(a, b) |-> At(Plus(a, k - 1))]

\* ctrl-U: back to the last newline, or to what has been handed over.
Kept(a) == a = w \/ At(Plus(a, -1)) = Newline
KillTo == CHOOSE a \in 0..(UintMod - 1) :
  /\ Dist(w, a) <= Dist(w, e) /\ Kept(a)
  /\ \A b \in 0..(UintMod - 1) : Dist(a, b) <= Dist(a, e) /\ b # a => ~Kept(b)

\* Mutant: only one of the sleepers is woken.
WakeupOne ==
  LET asleep == {p \in Readers : rd[p].at = "asleep"} IN
  rd' = [p \in Readers |-> IF p \in asleep /\ \A q \in asleep : p <= q
                           THEN [rd[p] EXCEPT !.at = "loop"] ELSE rd[p]]
Wakeup == rd' = [p \in Readers |-> IF rd[p].at = "asleep" THEN [rd[p] EXCEPT !.at = "loop"]
                                   ELSE rd[p]]

EndsLine(c, e1) == c \in {Newline, CtrlD} \/ e1 = Plus(r, INPUT_BUF)
\* Mutant: the ring is taken for full one character late.
HasRoomLate(c) == c # "nul" /\ Dist(r, e) <= INPUT_BUF
HasRoom(c) == c # "nul" /\ Dist(r, e) < INPUT_BUF

\* One character in consoleintr(), with the effect on the text as a user sees it.
consoleintr(c) ==
  /\ \/ /\ c = "ctrl-U" /\ e' = KillTo
        /\ text' = SubSeq(text, 1, Len(text) - Dist(KillTo, e))
        /\ UNCHANGED <<buf, r, w, rd>>
     \/ /\ c = "ctrl-H" /\ e' = (IF e # w THEN Plus(e, -1) ELSE e)
        /\ text' = IF e # w THEN Front(text) ELSE text
        /\ UNCHANGED <<buf, r, w, rd>>
     \/ /\ c \notin {"ctrl-U", "ctrl-H", "ctrl-P"} /\ HasRoom(c)
        /\ buf' = [buf EXCEPT ![e % INPUT_BUF] = c]
        /\ e' = Plus(e, 1)
        /\ text' = Append(text, c)
        /\ IF EndsLine(c, e') THEN w' = e' /\ Wakeup ELSE UNCHANGED <<w, rd>>
        /\ UNCHANGED r
     \/ /\ c = "ctrl-P" \/ (c \notin {"ctrl-U", "ctrl-H"} /\ ~HasRoom(c))
        /\ UNCHANGED <<ring, text, rd>>
  /\ UNCHANGED killed

-----------------------------------------------------------------------------
\* read(): a program asks for n characters; gets() asks for one at a time.
Start(p, n, max, line) ==
  rd' = [rd EXCEPT ![p] = [NotReading EXCEPT !.at = "loop", !.n = n, !.target = n,
                                             !.max = max, !.line = line]]
read(p, n) ==
  p \notin Shells /\ rd[p].at = "user" /\ Start(p, n, 0, <<>>) /\ UNCHANGED <<ring, killed, text>>
gets(p) ==
  p \in Shells /\ rd[p].at = "user" /\ Start(p, 1, MaxLine, <<>>) /\ UNCHANGED <<ring, killed, text>>

\* How many characters the loop of consoleread() takes before it stops, and why.
Waiting == Span(r, w)
Stops == {k \in DOMAIN Waiting : Waiting[k] \in {Newline, CtrlD}}
Taken(n) == Min(Stops \cup {n, Len(Waiting)})
Back(p, got) ==
  LET x == rd[p]
      line == x.line \o got
  IN IF x.max = 0 \/ got = <<>> \/ Last(line) = Newline \/ Len(line) + 1 >= x.max
     THEN [x EXCEPT !.at = "done", !.got = got, !.line = line]
     ELSE [x EXCEPT !.n = 1, !.got = <<>>, !.line = line]

SaveEOF(p, k) == IF rd[p].n - (k - 1) < rd[p].target THEN k - 1 ELSE k

\* consoleread() runs until it returns or goes to sleep.
consoleread(p) ==
  LET x == rd[p]
      k == Taken(x.n)
      chars == SubSeq(Waiting, 1, k)
      eof == k > 0 /\ chars[k] = CtrlD
      got == x.got \o (IF eof THEN Front(chars) ELSE chars)
      out == IF eof THEN SaveEOF(p, k) ELSE k
  IN
  /\ x.at = "loop"
  /\ r' = Plus(r, out) /\ text' = SubSeq(text, out + 1, Len(text))
  /\ rd' = [rd EXCEPT ![p] =
       CASE eof \/ k = x.n \/ (k > 0 /\ chars[k] = Newline) -> Back(p, got)
         [] OTHER -> IF p \in killed THEN [x EXCEPT !.at = "done", !.got = <<>>]
                     ELSE [x EXCEPT !.at = "asleep", !.n = x.n - k, !.got = got]]
  /\ UNCHANGED <<buf, w, e, killed>>

\* The program looks at what it read, and comes back; a killed one exits.
done(p) ==
  /\ rd[p].at = "done"
  /\ rd' = [rd EXCEPT ![p] = NotReading]
  /\ killed' = killed \ {p}
  /\ UNCHANGED <<ring, text>>

kill(p) ==
  /\ killed = {} /\ rd[p].at \in {"loop", "asleep"}
  /\ killed' = killed \cup {p}
  /\ rd' = [rd EXCEPT ![p].at = "loop"]
  /\ UNCHANGED <<ring, text>>

Next ==
  \/ \E c \in Keys : consoleintr(c)
  \/ \E p \in Readers :
       \/ \E n \in ReadSizes : read(p, n)
       \/ gets(p) \/ consoleread(p) \/ done(p) \/ kill(p)
Spec == Init /\ [][Next]_vars

-----------------------------------------------------------------------------
\* The ring holds exactly what the user typed and edited and nobody has read, in
\* that order, however the indices wrap: typing never overwrites a character
\* that was not read, and only what has not been handed over can be edited.
RingIsText == Span(r, e) = text /\ Dist(r, w) <= Dist(r, e) /\ Dist(r, e) <= INPUT_BUF

\* Nobody sleeps in consoleread() while there is a line to read, though several
\* readers sleep on one channel and each may take part of a line.
ConsoleSleepersMustWait == \A p \in Readers : rd[p].at = "asleep" => r = w
=============================================================================
