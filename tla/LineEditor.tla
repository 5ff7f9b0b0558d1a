----------------------------- MODULE LineEditor -----------------------------
(***************************************************************************)
(* The command line of the BIOS shell: readline_with_history and           *)
(* history_add of apps/bios/shell/shell_history.c and the cutting of the   *)
(* line into arguments, execute_cmd of decodecmd.c, in main's loop         *)
(* (bios68.c).  One action per key that getchar returns.  The echo on the  *)
(* screen is left out; a line is the sequence of its characters.           *)
(***************************************************************************)
EXTENDS Integers, Sequences, FiniteSets

CONSTANTS
  HIST_SIZE,    \* lines the history keeps (16)
  LINE_MAX,     \* bytes of a line with its final 0 (128)
  Chars,        \* keys that stand for themselves
  Blanks,       \* those among them that isspace accepts
  MAXARGS,      \* arguments a command may have (40)
  MaxCommands   \* bound: how many lines are executed

ASSUME EditorAssumption ==
  /\ HIST_SIZE \in Nat \ {0}
  /\ LINE_MAX \in Nat \ {0}
  /\ Blanks \subseteq Chars
  /\ MAXARGS \in Nat \ {0}
  /\ MaxCommands \in Nat

VARIABLES
  buf,           \* the line being edited; len is Len(buf)
  history,       \* history[0 .. HIST_SIZE - 1]
  hist_count,    \* lines ever added
  hist_cursor,   \* entries back from the newest, -1 on a new line
  executed,      \* the non-empty lines given to execute_cmd, as typed, in order
  argv           \* the arguments process_command was called with last

vars == <<buf, history, hist_count, hist_cursor, executed, argv>>

Init ==
  /\ buf = <<>>
  /\ history = [i \in 0..(HIST_SIZE - 1) |-> <<>>]
  /\ hist_count = 0
  /\ hist_cursor = -1
  /\ executed = <<>>
  /\ argv = <<>>

history_add(cmd) ==
  IF cmd = <<>>
  THEN UNCHANGED <<history, hist_count>>
  ELSE /\ history' = [history EXCEPT ![hist_count % HIST_SIZE] = cmd]
       /\ hist_count' = hist_count + 1

(* Where the loops of execute_cmd over blanks and over other characters     *)
(* stop that start at place p; the final 0 stops both.                      *)
Places(line)      == 1..(Len(line) + 1)
Blank(line, p)    == p <= Len(line) /\ line[p] \in Blanks
NonBlank(line, p) == p <= Len(line) /\ line[p] \notin Blanks
First(S)          == CHOOSE p \in S : \A q \in S : p <= q
Skip(line, p)     == First({q \in Places(line) : q >= p /\ ~Blank(line, q)})
WordEnd(line, p)  == First({q \in Places(line) : q >= p /\ ~NonBlank(line, q)})

Word(line, p)     == SubSeq(line, Skip(line, p), WordEnd(line, Skip(line, p)) - 1)

\* Mutant: the blanks behind a word are not skipped.
execute_cmd_trailing(line, max) ==
  LET ptr[n \in 0..max] ==
        IF n = 0 THEN 1 ELSE WordEnd(line, Skip(line, ptr[n - 1]))
      numargs == First({n \in 0..max : n = max \/ ptr[n] = Len(line) + 1})
  IN [k \in 1..numargs |-> Word(line, ptr[k - 1])]

(* The line is cut into at most max arguments (MAXARGS): ptr[n] is where    *)
(* the loop is when it has found n, and it ends at the end of the line.     *)
(* The blanks before the first word are skipped without a test for the end  *)
(* of the line, so a line of blanks has one argument, which is empty.       *)
execute_cmd(line, max) ==
  LET ptr[n \in 0..max] ==
        IF n = 0 THEN 1 ELSE Skip(line, WordEnd(line, Skip(line, ptr[n - 1])))
      numargs == First({n \in 0..max : n = max \/ ptr[n] = Len(line) + 1})
  IN [k \in 1..numargs |-> Word(line, ptr[k - 1])]

(* What execute_cmd leaves of the line: it writes a 0 over the blanks behind *)
(* every word, so that read as a string the line ends with its first word.  *)
Cut(line) == SubSeq(line, 1, WordEnd(line, Skip(line, 1)) - 1)

Executes(line) == executed' = IF line = <<>> THEN executed ELSE Append(executed, line)

\* Mutant: the line is added when execute_cmd has already cut it.
Enter_late ==
  /\ hist_count < MaxCommands
  /\ argv' = execute_cmd(buf, MAXARGS)
  /\ Executes(buf)
  /\ history_add(Cut(buf))
  /\ buf' = <<>>
  /\ hist_cursor' = -1

(* The line is done; main adds it, executes it and reads the next one.      *)
(* history_add comes first and so gets the line as it was typed.            *)
Enter ==
  /\ hist_count < MaxCommands
  /\ history_add(buf)
  /\ argv' = execute_cmd(buf, MAXARGS)
  /\ Executes(buf)
  /\ buf' = <<>>
  /\ hist_cursor' = -1

Backspace ==
  /\ buf' = IF buf = <<>> THEN buf ELSE SubSeq(buf, 1, Len(buf) - 1)
  /\ UNCHANGED <<history, hist_count, hist_cursor, executed, argv>>

Entry(cursor) == history[(hist_count - 1 - cursor + HIST_SIZE) % HIST_SIZE]

OlderExists == hist_cursor + 1 < hist_count /\ hist_cursor + 1 < HIST_SIZE

Up ==
  /\ IF OlderExists
     THEN /\ hist_cursor' = hist_cursor + 1
          /\ buf' = Entry(hist_cursor + 1)
     ELSE UNCHANGED <<hist_cursor, buf>>
  /\ UNCHANGED <<history, hist_count, executed, argv>>

\* Mutant: the cursor moves and the line does not.
Down_keep ==
  /\ hist_cursor' = IF hist_cursor >= 0 THEN hist_cursor - 1 ELSE hist_cursor
  /\ buf' = IF hist_cursor > 0 THEN Entry(hist_cursor - 1) ELSE buf
  /\ UNCHANGED <<history, hist_count, executed, argv>>

Down ==
  /\ IF hist_cursor > 0
     THEN /\ hist_cursor' = hist_cursor - 1
          /\ buf' = Entry(hist_cursor - 1)
     ELSE IF hist_cursor = 0
     THEN hist_cursor' = -1 /\ buf' = <<>>
     ELSE UNCHANGED <<hist_cursor, buf>>
  /\ UNCHANGED <<history, hist_count, executed, argv>>

Type(c) ==
  /\ buf' = IF Len(buf) < LINE_MAX - 1 THEN Append(buf, c) ELSE buf
  /\ UNCHANGED <<history, hist_count, hist_cursor, executed, argv>>

Keys == Chars \cup {"enter", "backspace", "up", "down"}

(* The body of the loop for one key. *)
Key(k) ==
  \/ k = "enter" /\ Enter
  \/ k = "backspace" /\ Backspace
  \/ k = "up" /\ Up
  \/ k = "down" /\ Down
  \/ k \in Chars /\ Type(k)

Next == \E k \in Keys : Key(k)

Spec == Init /\ [][Next]_vars

-----------------------------------------------------------------------------
(* Properties.                                                             *)

(* A line and its final 0 fit LINE_MAX bytes, in buf and in the history.    *)
(* (What argv holds is ArgumentsAreTheWords.)                               *)
IsLine(line) == line \in Seq(Chars) /\ Len(line) < LINE_MAX

TypeOK ==
  /\ IsLine(buf)
  /\ DOMAIN history = 0..(HIST_SIZE - 1) /\ \A i \in DOMAIN history : IsLine(history[i])
  /\ hist_count \in 0..MaxCommands
  /\ hist_cursor \in -1..(HIST_SIZE - 1)

(* Where the cursor can go, the circular array has the n-th last executed   *)
(* line, whole as it was typed although execute_cmd cuts it in place, also  *)
(* after the array has wrapped; and the cursor is never past the oldest     *)
(* line kept.                                                               *)
HistoryIsTheLastLines ==
  /\ hist_count = Len(executed)
  /\ hist_cursor < hist_count
  /\ \A n \in 0..(HIST_SIZE - 1) :
       n < hist_count => Entry(n) = executed[hist_count - n]

(* The arrows show what they point to: whenever the cursor moves, the line  *)
(* becomes the line that many commands back, and empty at the near end.     *)
ArrowsShowTheLine ==
  [][hist_cursor' # hist_cursor =>
       buf' = IF hist_cursor' = -1 THEN <<>> ELSE executed'[Len(executed') - hist_cursor']]_vars

(* What a command is given, in terms of the line alone: the maximal runs of *)
(* other characters, in their order, up to MAXARGS of them (execute_cmd,    *)
(* whatever blanks precede, separate or follow them); a line of blanks      *)
(* gives one empty argument.  The same holds for every smaller limit, so    *)
(* that short lines reach it.                                               *)
WordStarts(line) == {p \in 1..Len(line) : NonBlank(line, p) /\ (p = 1 \/ Blank(line, p - 1))}

IsWord(word, line, p) ==
  /\ word = SubSeq(line, p, p + Len(word) - 1)
  /\ \A q \in p..(p + Len(word) - 1) : NonBlank(line, q)
  /\ ~NonBlank(line, p + Len(word))

IsCut(args, line, max) ==
  LET starts == WordStarts(line)
      count  == Cardinality(starts)
  IN  IF starts = {} THEN args = << <<>> >>
      ELSE /\ Len(args) = IF count < max THEN count ELSE max
           /\ \A k \in 1..Len(args) : \E p \in starts :
                Cardinality({q \in starts : q <= p}) = k /\ IsWord(args[k], line, p)

ArgumentsAreTheWords ==
  [][executed' # executed =>
       LET line == executed'[Len(executed')]
       IN  /\ IsCut(argv', line, MAXARGS)
           /\ \A max \in 1..(MAXARGS - 1) : IsCut(execute_cmd(line, max), line, max)]_vars
=============================================================================
