------------------------------- MODULE ShLine -------------------------------
(***************************************************************************)
(* The line editor of user/sh.c: readline() with its history and           *)
(* handle_tab_completion(), called by getcmd() from main()'s loop.  The    *)
(* console is in raw mode, so what the user sees of the line is what the   *)
(* editor writes: screen is that line, "\b \b" takes its last character    *)
(* away.  buf is buf[0 .. cmd_len-1].                                      *)
(***************************************************************************)
EXTENDS Integers, Sequences, SequencesExt

CONSTANTS
  Keys,         \* the characters that are typed
  CD,           \* the characters 'c', 'd', ' ' that main() looks for
  Entries,      \* the names in the current directory, in directory order
  DIRSIZ,       \* the length of a name
  MAX_HISTORY,
  max,          \* nbuf, the size of main()'s buf
  MaxLines,     \* bound: lines given, and their length
  MaxGiven

ShLineAssumption ==
  /\ MAX_HISTORY \in Nat \ {0}
  /\ DIRSIZ \in Nat /\ \A i \in 1 .. Len(Entries) : Len(Entries[i]) <= DIRSIZ
  /\ max \in Nat /\ MaxLines \in Nat /\ MaxGiven \in Nat

VARIABLES
  buf, screen,
  history, history_count, history_index,
  ran,     \* what main() did with the last line: a call and its argument
  typed,   \* history variable: every line that was saved, oldest first
  shown    \* history variable: buf was loaded from history and not edited since

vars == <<buf, screen, history, history_count, history_index, ran, typed, shown>>

Init ==
  /\ buf = <<>> /\ screen = <<>>
  /\ history = [i \in 0 .. MAX_HISTORY - 1 |-> <<>>]
  /\ history_count = 0 /\ history_index = 0
  /\ ran = [call |-> "none", arg |-> <<>>, line |-> <<>>]
  /\ typed = <<>> /\ shown = FALSE

Ring == <<history, history_count, history_index, typed, ran>>

Erased(n) == SubSeq(screen, 1, Len(screen) - n)

(* The body of main()'s loop: chdir to the text behind "cd ", without the  *)
(* last character of the line, or a child that parses and runs the line.   *)
main(line) ==
  IF line = <<>> THEN [call |-> "exit", arg |-> <<>>, line |-> line]
  ELSE IF IsPrefix(CD, line)
  THEN [call |-> "chdir", arg |-> SubSeq(line, Len(CD) + 1, Len(line) - 1), line |-> line]
  ELSE [call |-> "runcmd", arg |-> line, line |-> line]

(* '\n': the line is finished.  A line that repeats the last one is not    *)
(* saved; the next call of readline() starts with an empty line.           *)
Enter ==
  /\ Len(buf) \in 1 .. MaxGiven /\ Len(typed) < MaxLines
  /\ IF history_count = 0 \/ buf # history[(history_count - 1) % MAX_HISTORY]
     THEN /\ history' = [history EXCEPT ![history_count % MAX_HISTORY] = buf]
          /\ history_count' = history_count + 1
          /\ typed' = Append(typed, buf)
     ELSE UNCHANGED <<history, history_count, typed>>
  /\ history_index' = history_count'
  /\ ran' = main(buf)
  /\ buf' = <<>> /\ screen' = <<>> /\ shown' = FALSE

(* The input ends, or '\n' on an empty line: getcmd() takes both for the   *)
(* end of the input and, behind a last unfinished line, main() exits.  The *)
(* shell that init starts next has no history.                             *)
Eof ==
  /\ Len(buf) <= MaxGiven
  /\ ran' = main(buf)
  /\ buf' = <<>> /\ screen' = <<>> /\ shown' = FALSE
  /\ history' = [i \in 0 .. MAX_HISTORY - 1 |-> <<>>]
  /\ history_count' = 0 /\ history_index' = 0 /\ typed' = <<>>

Load(line) ==
  /\ buf' = line
  /\ screen' = Erased(Len(buf)) \o line

Up ==
  /\ history_index > 0
  /\ history_index' = history_index - 1
  /\ Load(history[history_index' % MAX_HISTORY])
  /\ shown' = TRUE
  /\ UNCHANGED <<history, history_count, typed, ran>>

(* Faulty: always loads the slot at history_index, the blank line past the *)
(* newest entry is forgotten.                                              *)
Down_noblank ==
  /\ history_index < history_count
  /\ history_index' = history_index + 1
  /\ Load(history[history_index' % MAX_HISTORY])
  /\ shown' = TRUE
  /\ UNCHANGED <<history, history_count, typed, ran>>

Down ==
  /\ history_index < history_count
  /\ history_index' = history_index + 1
  /\ Load(IF history_index' < history_count THEN history[history_index' % MAX_HISTORY]
          ELSE <<>>)
  /\ shown' = TRUE
  /\ UNCHANGED <<history, history_count, typed, ran>>

Backspace ==
  /\ buf # <<>>
  /\ buf' = Front(buf) /\ screen' = Erased(1) /\ shown' = FALSE
  /\ UNCHANGED Ring

Char(c) ==
  /\ Len(buf) < max - 1
  /\ buf' = Append(buf, c) /\ screen' = Append(screen, c) /\ shown' = FALSE
  /\ UNCHANGED Ring

(* handle_tab_completion(): the word behind the last space or slash is     *)
(* replaced by the entry when one starts with it, or with its first DIRSIZ *)
(* characters.  When several do, the line is printed again under a message.*)
(* Nothing looks at the end of buf.                                        *)
handle_tab_completion ==
  LET j       == SelectLastInSeq(buf, LAMBDA c : c \in {" ", "/"})
      word    == SubSeq(buf, j + 1, Len(buf))
      prefix  == SubSeq(word, 1, Min({Len(word), DIRSIZ}))
      matches == SelectSeq(Entries, LAMBDA e : IsPrefix(prefix, e))
  IN  \/ /\ Len(matches) = 1
         /\ buf' = SubSeq(buf, 1, j) \o matches[1]
         /\ screen' = Erased(Len(word)) \o matches[1]
         /\ shown' = FALSE
         /\ UNCHANGED Ring
      \/ /\ Len(matches) > 1
         /\ screen' = buf
         /\ UNCHANGED <<buf, shown>> /\ UNCHANGED Ring

(* A completion was written past the end of buf.  What lies behind it in   *)
(* memory is the build's choice, and so is what the shell does next: the   *)
(* model stops here.                                                       *)
Overrun == Len(buf) >= max

Next ==
  /\ ~Overrun
  /\ \/ Enter \/ Eof \/ Up \/ Down \/ Backspace \/ handle_tab_completion
     \/ \E c \in Keys : Char(c)

Spec == Init /\ [][Next]_vars

-----------------------------------------------------------------------------
(* The user sees the line that ENTER will run: after any mix of typing,    *)
(* backspace, recall and completion the characters on the terminal are     *)
(* those in buf, so every "\b \b" of user/sh.c:69-71, 122-125, 139-142 and *)
(* 162 is matched by a shorter line.  And the arrow keys show what was     *)
(* given before: at index k the k-th line, as long as it is one of the     *)
(* last MAX_HISTORY, and behind the newest a blank one                     *)
(* (user/sh.c:101-106, 118-151).  Farther back the ring has younger lines. *)
ShowsTyped ==
  /\ screen = buf
  /\ shown /\ history_index = history_count => buf = <<>>
  /\ shown /\ history_index < history_count /\ history_count - history_index <= MAX_HISTORY
       => buf = typed[history_index + 1]

(* The directory main() changes to is the one named on the line: what      *)
(* follows "cd " (user/sh.c:342-345).                                      *)
CdAsTyped == ran.call = "chdir" => ran.arg = SubSeq(ran.line, Len(CD) + 1, Len(ran.line))
=============================================================================
