------------------------------- MODULE ShParse -------------------------------
(***************************************************************************)
(* The parser of user/sh.c: gettoken() to nulterminate(), on the characters*)
(* of the line.  Every parse function takes the line and a position and    *)
(* returns [ok, cmd, s]: the tree it built and the position it left in     *)
(* *ps, or ok = FALSE where the code calls panic() and the child exits.  A *)
(* word is the pair of positions (q, eq) until nulterminate() cuts it.     *)
(***************************************************************************)
EXTENDS Integers, FiniteSets, Sequences, SequencesExt

CONSTANTS
  MAXARGS,   \* entries of argv[]
  InLines    \* the lines that are parsed

ShParseAssumption == MAXARGS \in Nat \ {0}

VARIABLE line   \* what getcmd() returned

Init == line \in InLines

whitespace == {" "}
symbols == {"<", "|", ">", "&", ";", "(", ")"}

(* *s, NUL at es. *)
CharAt(buf, s) == IF s <= Len(buf) THEN buf[s] ELSE "NUL"

(* The loops that skip blanks, and the characters of a word. *)
Blanks(buf, s) == Min({k \in s .. Len(buf) : buf[k] \notin whitespace} \cup {Len(buf) + 1})
WordEnd(buf, s) ==
  Min({k \in s .. Len(buf) : buf[k] \in whitespace \cup symbols} \cup {Len(buf) + 1})

(* The token at q, where there is no blank: its kind, and its end. *)
IsAppend(buf, q) == CharAt(buf, q) = ">" /\ CharAt(buf, q + 1) = ">"
Kind(buf, q) ==
  IF IsAppend(buf, q) THEN "+"
  ELSE IF CharAt(buf, q) \in symbols \cup {"NUL"} THEN CharAt(buf, q) ELSE "a"
End(tok, buf, q) ==
  CASE tok = "NUL" -> q
    [] tok = "+" -> q + 2
    [] tok = "a" -> WordEnd(buf, q)
    [] OTHER -> q + 1

Token(tok, q, eq, buf) == [tok |-> tok, q |-> q, eq |-> eq, s |-> Blanks(buf, eq)]
TokenAt(buf, q) == Token(Kind(buf, q), q, End(Kind(buf, q), buf, q), buf)
gettoken(buf, s) == TokenAt(buf, Blanks(buf, s))

peek(buf, s, toks) == CharAt(buf, Blanks(buf, s)) \in toks

Word(t) == [q |-> t.q, eq |-> t.eq]

(* The constructors. *)
execcmd(argv) == [type |-> "EXEC", argv |-> argv]
redircmd(cmd, tok, file) == [type |-> "REDIR", cmd |-> cmd, mode |-> tok, file |-> file]
pipecmd(l, r) == [type |-> "PIPE", left |-> l, right |-> r]
listcmd(l, r) == [type |-> "LIST", left |-> l, right |-> r]
backcmd(cmd) == [type |-> "BACK", cmd |-> cmd]

Panicked == [ok |-> FALSE, cmd |-> execcmd(<<>>), s |-> 1]

(* An EXEC node under its redirections: argv is filled in place while      *)
(* redirections are put on top.                                            *)
RECURSIVE AddArg(_, _)
AddArg(cmd, w) ==
  IF cmd.type = "REDIR" THEN [cmd EXCEPT !.cmd = AddArg(cmd.cmd, w)]
  ELSE [cmd EXCEPT !.argv = Append(@, w)]

RECURSIVE parseredirs(_, _, _)
parseredirs(cmd, buf, s) ==
  LET Redirect(tok, file) ==
        IF file.tok # "a" THEN Panicked
        ELSE parseredirs(redircmd(cmd, tok, Word(file)), buf, file.s)
      Operator(op) == Redirect(op.tok, gettoken(buf, op.s))
  IN  IF ~peek(buf, s, {"<", ">"}) THEN [ok |-> TRUE, cmd |-> cmd, s |-> Blanks(buf, s)]
      ELSE Operator(gettoken(buf, s))

(* The loop of parseexec(). *)
RECURSIVE parseargs(_, _, _)
parseargs(r, argc, buf) ==
  LET Argument(t) ==
        IF t.tok = "NUL" THEN r
        ELSE IF t.tok # "a" \/ argc + 1 >= MAXARGS THEN Panicked
        ELSE parseargs(parseredirs(AddArg(r.cmd, Word(t)), buf, t.s), argc + 1, buf)
  IN  IF ~r.ok \/ peek(buf, r.s, {"|", ")", "&", ";"}) THEN r
      ELSE Argument(gettoken(buf, r.s))

(* What follows l, if the next token is tok: r, and the node for both. *)
Join(l, buf, tok, r) ==
  IF ~l.ok \/ ~peek(buf, l.s, {tok}) THEN l
  ELSE IF ~r.ok THEN Panicked
  ELSE [r EXCEPT !.cmd = IF tok = "|" THEN pipecmd(l.cmd, @) ELSE listcmd(l.cmd, @)]

(* parseblock() behind "(" and the line r. *)
CloseBlock(r, buf) ==
  IF ~r.ok \/ ~peek(buf, r.s, {")"}) THEN Panicked
  ELSE parseredirs(r.cmd, buf, gettoken(buf, r.s).s)

RECURSIVE parseline(_, _)
parseblock(buf, s) == CloseBlock(parseline(buf, gettoken(buf, s).s), buf)

parseexec(buf, s) ==
  IF peek(buf, s, {"("}) THEN parseblock(buf, s)
  ELSE parseargs(parseredirs(execcmd(<<>>), buf, s), 0, buf)

(* parsepipe() and parseline() behind their first command. *)
RECURSIVE parsepipe(_, _)
PipeRest(l, buf) == Join(l, buf, "|", parsepipe(buf, gettoken(buf, l.s).s))
LineRest(l, buf) == Join(l, buf, ";", parseline(buf, gettoken(buf, l.s).s))

parsepipe(buf, s) == PipeRest(parseexec(buf, s), buf)

RECURSIVE parseback(_, _)
parseback(r, buf) ==
  IF ~r.ok \/ ~peek(buf, r.s, {"&"}) THEN r
  ELSE parseback([r EXCEPT !.cmd = backcmd(@), !.s = gettoken(buf, @).s], buf)

(* Faulty: looks for ";" before "&", so that "a & ; b" is refused. *)
parseline_order(buf, s) == parseback(LineRest(parsepipe(buf, s), buf), buf)

parseline(buf, s) == LineRest(parseback(parsepipe(buf, s), buf), buf)

(* nulterminate(): the positions that become NUL. *)
RECURSIVE nulterminate(_)
nulterminate(cmd) ==
  CASE cmd.type = "EXEC" -> {w.eq : w \in ToSet(cmd.argv)}
    [] cmd.type = "REDIR" -> nulterminate(cmd.cmd) \cup {cmd.file.eq}
    [] cmd.type \in {"PIPE", "LIST"} -> nulterminate(cmd.left) \cup nulterminate(cmd.right)
    [] cmd.type = "BACK" -> nulterminate(cmd.cmd)

(* The strings that runcmd() finds at the pointers of the tree. *)
RECURSIVE Strings(_, _, _)
Strings(cmd, buf, nul) ==
  LET String(w) == SubSeq(buf, w.q,
                     CHOOSE k \in w.q - 1 .. Len(buf) :
                       /\ k + 1 \in nul \cup {Len(buf) + 1}
                       /\ \A j \in w.q .. k : j \notin nul)
  IN  CASE cmd.type = "EXEC" -> execcmd([i \in DOMAIN cmd.argv |-> String(cmd.argv[i])])
        [] cmd.type = "REDIR" ->
             redircmd(Strings(cmd.cmd, buf, nul), cmd.mode, String(cmd.file))
        [] cmd.type = "PIPE" ->
             pipecmd(Strings(cmd.left, buf, nul), Strings(cmd.right, buf, nul))
        [] cmd.type = "LIST" ->
             listcmd(Strings(cmd.left, buf, nul), Strings(cmd.right, buf, nul))
        [] cmd.type = "BACK" -> backcmd(Strings(cmd.cmd, buf, nul))

(* parsecmd(): the set with the tree, empty when the buf is refused. *)
Accepted(r, buf) ==
  IF r.ok /\ Blanks(buf, r.s) = Len(buf) + 1
  THEN {Strings(r.cmd, buf, nulterminate(r.cmd))} ELSE {}
parsecmd(buf) == Accepted(parseline(buf, 1), buf)
-----------------------------------------------------------------------------
(* The grammar that the functions implement, as the set of trees that each *)
(* of its levels gives a sequence of tokens:                               *)
(*   line   ::= back | back ; line        back ::= pipe | back &           *)
(*   pipe   ::= simple | simple "|" pipe                                   *)
(*   simple ::= ( line ) redirections | words and redirections in any order*)
(* A token is a symbol, "+" for >>, or a word <<characters>>.              *)
RECURSIVE Tokens(_)
Tokens(buf) ==
  LET n == IF buf[1] \in symbols THEN 1
           ELSE Max({k \in 1 .. Len(buf) : \A j \in 1 .. k : buf[j] \notin symbols \cup {" "}})
      Rest(k) == Tokens(SubSeq(buf, k, Len(buf)))
  IN  IF buf = <<>> THEN <<>>
      ELSE IF buf[1] = " " THEN Rest(2)
      ELSE IF Len(buf) > 1 /\ buf[1] = ">" /\ buf[2] = ">" THEN <<<<"+">>>> \o Rest(3)
      ELSE IF n = 1 /\ buf[1] \in symbols THEN <<<<buf[1]>>>> \o Rest(2)
      ELSE <<<<"word", SubSeq(buf, 1, n)>>>> \o Rest(n + 1)

IsWord(t) == t[1] = "word"
IsRedir(t) == t[1] \in {"<", ">", "+"}

(* Words and redirections; the last redirection is the outermost node. *)
Redirected(cmds, ts) ==
  LET ops == SetToSortSeq({i \in 1 .. Len(ts) : IsRedir(ts[i])}, <)
  IN  {FoldLeft(LAMBDA c, i : redircmd(c, ts[i][1], ts[i + 1][2]), c0, ops) : c0 \in cmds}

IsFile(ts, i) == i > 1 /\ IsRedir(ts[i - 1])

WellFormed(ts) ==
  \A i \in 1 .. Len(ts) :
    /\ IsWord(ts[i]) \/ (IsRedir(ts[i]) /\ ~IsFile(ts, i))
    /\ IsRedir(ts[i]) => i < Len(ts)

RECURSIVE LineTrees(_)
SimpleTrees(ts) ==
  LET args == SetToSortSeq({i \in 1 .. Len(ts) : IsWord(ts[i]) /\ ~IsFile(ts, i)}, <)
  IN  IF ts # <<>> /\ ts[1] = <<"(">>
      THEN UNION {Redirected(LineTrees(SubSeq(ts, 2, i - 1)), SubSeq(ts, i + 1, Len(ts))) :
                    i \in {k \in 2 .. Len(ts) : /\ ts[k] = <<")">>
                                               /\ WellFormed(SubSeq(ts, k + 1, Len(ts)))
                                               /\ 2 * Cardinality({j \in k + 1 .. Len(ts) : IsRedir(ts[j])}) = Len(ts) - k}}
      ELSE IF WellFormed(ts) /\ Len(args) < MAXARGS
      THEN Redirected({execcmd([k \in 1 .. Len(args) |-> ts[args[k]][2]])}, ts)
      ELSE {}

(* The places where ts can be cut at a token. *)
Cuts(ts, tok) == {i \in 1 .. Len(ts) : ts[i] = <<tok>>}
Before(ts, i) == SubSeq(ts, 1, i - 1)
After(ts, i) == SubSeq(ts, i + 1, Len(ts))

RECURSIVE PipeTrees(_)
PipeTrees(ts) ==
  SimpleTrees(ts) \cup
  UNION {{pipecmd(l, r) : l \in SimpleTrees(Before(ts, i)), r \in PipeTrees(After(ts, i))} :
           i \in Cuts(ts, "|")}

RECURSIVE BackTrees(_)
BackTrees(ts) ==
  PipeTrees(ts) \cup
  (IF ts # <<>> /\ Last(ts) = <<"&">> THEN {backcmd(c) : c \in BackTrees(Front(ts))} ELSE {})

LineTrees(ts) ==
  BackTrees(ts) \cup
  UNION {{listcmd(l, r) : l \in BackTrees(Before(ts, i)), r \in LineTrees(After(ts, i))} :
           i \in Cuts(ts, ";")}

(* The shell accepts exactly the lines of the grammar, and the tree that   *)
(* runcmd() is given, with the strings nulterminate() left at its pointers,*)
(* is the one tree the grammar has for the line: no word is cut short or   *)
(* runs into the next token, and a redirection, "&", "|" or ";" binds to   *)
(* the command the grammar says (user/sh.c:447-675).                       *)
ParsedByGrammar == parsecmd(line) = LineTrees(Tokens(line))
=============================================================================
