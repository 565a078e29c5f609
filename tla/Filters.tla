------------------------------- MODULE Filters -------------------------------
(***************************************************************************)
(* user/grep.c and user/xargs.c.  The input arrives in pieces of any       *)
(* length, as from a pipe: grep() puts lines together in its buffer, xargs *)
(* reads one byte at a time and runs its command once per line.            *)
(* Characters are the strings of length one that the code tells apart, a   *)
(* text is a sequence of them.                                             *)
(***************************************************************************)
EXTENDS Integers, Sequences, SequencesExt

CONSTANTS
  Jobs,      \* records [prog, pattern, input]; for xargs "pattern" is base argv
  GREPBUF,   \* sizeof(buf) in grep.c
  XARGSBUF,  \* sizeof(buf) in xargs.c
  MAXARG     \* entries of xargv

FiltersAssumption ==
  /\ GREPBUF \in Nat /\ GREPBUF > 1
  /\ XARGSBUF \in Nat /\ XARGSBUF > 2
  /\ MAXARG \in Nat /\ \A j \in Jobs : j.prog = "xargs" => Len(j.pattern) < MAXARG

VARIABLES
  job,     \* the program, its argument and its whole input
  input,   \* what was not read yet
  buf,     \* the bytes in the buffer
  out,     \* lines that grep wrote, argument vectors that xargs executed
  unforked,\* lines whose fork() failed in xargs, by number
  done     \* the program has returned

vars == <<job, input, buf, out, unforked, done>>

From(s, k) == SubSeq(s, k, Len(s))

(* The lines of a text that end in a newline, and what follows the last. *)
RECURSIVE Lines(_)
Lines(text) ==
  LET q == SelectInSeq(text, LAMBDA c : c = "\n")
  IN  IF q = 0 THEN <<>> ELSE <<SubSeq(text, 1, q - 1)>> \o Lines(From(text, q + 1))

Unfinished(text) == From(text, SelectLastInSeq(text, LAMBDA c : c = "\n") + 1)

-----------------------------------------------------------------------------
(* matchhere(), matchstar() and match() of grep.c. *)
RECURSIVE matchhere(_, _)
RECURSIVE matchstar(_, _, _)
matchhere(re, text) ==
  IF re = <<>> THEN TRUE
  ELSE IF Len(re) > 1 /\ re[2] = "*" THEN matchstar(re[1], From(re, 3), text)
  ELSE IF re = <<"$">> THEN text = <<>>
  ELSE /\ text # <<>> /\ re[1] \in {".", Head(text)}
       /\ matchhere(Tail(re), Tail(text))

matchstar(c, re, text) ==
  \/ matchhere(re, text)
  \/ text # <<>> /\ c \in {".", Head(text)} /\ matchstar(c, re, Tail(text))

match(re, text) ==
  IF re # <<>> /\ re[1] = "^" THEN matchhere(Tail(re), text)
  ELSE \E k \in 1 .. Len(text) + 1 : matchhere(re, From(text, k))

Init ==
  /\ job \in Jobs
  /\ input = job.input
  /\ buf = <<>>
  /\ out = <<>>
  /\ unforked = {}
  /\ done = FALSE

(* Faulty: every read starts at the beginning of buf, so the unfinished    *)
(* line of the read before is lost.                                        *)
grep_overwrite ==
  \E n \in 1 .. GREPBUF - 1 :
    /\ job.prog = "grep" /\ ~done /\ n <= Len(input)
    /\ LET text == SubSeq(input, 1, n)
       IN  /\ out' = out \o SelectSeq(Lines(text), LAMBDA l : match(job.pattern, l))
           /\ buf' = Unfinished(text)
    /\ input' = From(input, n + 1)
    /\ UNCHANGED <<job, unforked, done>>

(* One round of grep()'s loop: a read of n > 0 bytes behind the unfinished *)
(* line, then every complete line is matched and what is left moves to the *)
(* front.                                                                  *)
grep ==
  \E n \in 1 .. GREPBUF - Len(buf) - 1 :
    /\ job.prog = "grep" /\ ~done /\ n <= Len(input)
    /\ LET text == buf \o SubSeq(input, 1, n)
       IN  /\ out' = out \o SelectSeq(Lines(text), LAMBDA l : match(job.pattern, l))
           /\ buf' = Unfinished(text)
    /\ input' = From(input, n + 1)
    /\ UNCHANGED <<job, unforked, done>>

(* read() returns 0: the input is at its end, or the line fills the buffer *)
(* and the read asks for no bytes.                                         *)
grep_end ==
  /\ job.prog = "grep" /\ ~done
  /\ input = <<>> \/ Len(buf) = GREPBUF - 1
  /\ done' = TRUE
  /\ UNCHANGED <<job, input, buf, out, unforked>>

-----------------------------------------------------------------------------
(* parse_args(): args grows by the words of line; a word that finds argc   *)
(* at MAXARG-1 ends the program.                                           *)
parse_args(line, args) ==
  FoldLeft(LAMBDA a, c :
             IF a.failed THEN a
             ELSE IF c = " " THEN [a EXCEPT !.inword = FALSE]
             ELSE IF a.inword THEN [a EXCEPT !.args[Len(a.args)] = Append(@, c)]
             ELSE IF Len(a.args) >= MAXARG - 1 THEN [a EXCEPT !.failed = TRUE]
             ELSE [a EXCEPT !.args = Append(@, <<c>>), !.inword = TRUE],
           [args |-> args, inword |-> FALSE, failed |-> FALSE], line)

(* The lines that were read to their newline. *)
LinesRead == Len(Lines(job.input)) - Len(Lines(input))

(* One round of main()'s loop in xargs.c: a byte is put into buf, or the   *)
(* line is at its end and the command runs.  When fork() fails the line is *)
(* passed over without a word: wait() finds no child.                      *)
xargs ==
  /\ job.prog = "xargs" /\ ~done /\ input # <<>>
  /\ input' = Tail(input)
  /\ IF Head(input) = "\n"
     THEN LET parsed == parse_args(buf, job.pattern)
          IN  /\ \/ parsed.failed /\ UNCHANGED <<out, unforked>>
                 \/ ~parsed.failed /\ out' = Append(out, parsed.args) /\ UNCHANGED unforked
                 \/ ~parsed.failed /\ unforked' = unforked \cup {LinesRead + 1} /\ UNCHANGED out
              /\ done' = parsed.failed
              /\ buf' = <<>>
     ELSE /\ buf' = Append(buf, Head(input))
          /\ done' = (Len(buf) + 1 >= XARGSBUF - 2)
          /\ UNCHANGED <<out, unforked>>
  /\ UNCHANGED job

xargs_end ==
  /\ job.prog = "xargs" /\ ~done /\ input = <<>>
  /\ done' = TRUE
  /\ UNCHANGED <<job, input, buf, out, unforked>>

Next == grep \/ grep_end \/ xargs \/ xargs_end

Spec == Init /\ [][Next]_vars

-----------------------------------------------------------------------------
(* The language of a pattern, without the recursion of the matcher: the    *)
(* pattern is a sequence of items, a character with or without a star, and *)
(* a text belongs to it when it can be cut into one piece per item.        *)
RECURSIVE Items(_)
Items(re) ==
  IF re = <<>> THEN <<>>
  ELSE IF Len(re) > 1 /\ re[2] = "*"
  THEN <<[c |-> re[1], star |-> TRUE]>> \o Items(From(re, 3))
  ELSE <<[c |-> re[1], star |-> FALSE]>> \o Items(Tail(re))

Accepts(re, text) ==
  LET start == re # <<>> /\ re[1] = "^"
      items == Items(IF start THEN Tail(re) ELSE re)
      end   == items # <<>> /\ Last(items) = [c |-> "$", star |-> FALSE]
      n     == IF end THEN Len(items) - 1 ELSE Len(items)
  IN  \E cut \in [0 .. n -> 0 .. Len(text)] :
        /\ start => cut[0] = 0
        /\ end => cut[n] = Len(text)
        /\ \A i \in 1 .. n :
             /\ IF items[i].star THEN cut[i] >= cut[i - 1] ELSE cut[i] = cut[i - 1] + 1
             /\ \A k \in cut[i - 1] + 1 .. cut[i] : items[i].c \in {".", text[k]}

(* The words of a line: its longest stretches without a space. *)
WordsOf(line) ==
  LET Starts == {i \in 1 .. Len(line) : line[i] # " " /\ (i = 1 \/ line[i - 1] = " ")}
      WordAt(i) == LET ends == {j \in i .. Len(line) : \A k \in i .. j : line[k] # " "}
                   IN  SubSeq(line, i, Max(ends))
      sorted == SetToSortSeq(Starts, <)
  IN  [k \in 1 .. Len(sorted) |-> WordAt(sorted[k])]

(* What has to come out.  The command of xargs runs for a line with a word *)
(* in it.  It is left open whether it also runs for a line without one,    *)
(* and for a last line without a newline.                                  *)
Expected ==
  LET lines == Lines(job.input)
      all   == Append(lines, Unfinished(job.input))
      toRun == SetToSortSeq({k \in 1 .. Len(all) \ unforked : WordsOf(all[k]) # <<>>}, <)
  IN  IF job.prog = "grep" THEN SelectSeq(lines, LAMBDA l : Accepts(job.pattern, l))
      ELSE [k \in 1 .. Len(toRun) |-> job.pattern \o WordsOf(all[toRun[k]])]

Output ==
  IF job.prog = "grep" THEN out
  ELSE SelectSeq(out, LAMBDA args : Len(args) > Len(job.pattern))

Fits ==
  \A l \in ToSet(Append(Lines(job.input), Unfinished(job.input))) :
    IF job.prog = "grep" THEN Len(l) + 1 < GREPBUF
    ELSE /\ Len(l) < XARGSBUF - 2
         /\ Len(job.pattern) + Len(WordsOf(l)) < MAXARG

(* However the input is cut into reads, grep writes exactly the complete   *)
(* lines in the language of its pattern, and xargs runs its command with   *)
(* the words of each line that has words, once and in order, but for the   *)
(* lines whose fork() failed: nothing more at any time, and all of it at   *)
(* the end when lines and words fit the buffers and, for xargs, the last   *)
(* line is finished (user/grep.c:18-34, user/xargs.c:53-84).  xargs runs   *)
(* the bare command for a line without words and drops an unfinished last  *)
(* line where docs/xv6_xargs.md:65-66 would have it the other way: the     *)
(* property takes no side.                                                 *)
FilteredExactly ==
  /\ IsPrefix(Output, Expected)
  /\ done /\ Fits /\ (job.prog = "xargs" => Unfinished(job.input) = <<>>) => Output = Expected
=============================================================================
