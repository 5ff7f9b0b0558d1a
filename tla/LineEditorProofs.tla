-------------------------- MODULE LineEditorProofs --------------------------
(***************************************************************************)
(* Proofs about LineEditor.tla: for every size of the history, every length *)
(* of a line and every number of commands, the circular array holds the    *)
(* last lines and the arrows show them; and what execute_cmd makes of a    *)
(* line are its words.                                                     *)
(***************************************************************************)
EXTENDS LineEditor, SequenceTheorems, FiniteSetTheorems, WellFoundedInduction, TLAPS

(* The inductive invariant. *)
IInv == TypeOK /\ HistoryIsTheLastLines /\ executed \in Seq(Seq(Chars))

-----------------------------------------------------------------------------
(* Lemmas about the index arithmetic of the circular array.                *)

(* Two numbers less than H apart have different places. *)
LEMMA PlacesDiffer ==
  ASSUME NEW H \in Nat \ {0}, NEW x \in Nat, NEW y \in Nat, y < x, x - y < H
  PROVE  x % H # y % H
<1> SUFFICES ASSUME x % H = y % H PROVE FALSE
  OBVIOUS
<1> DEFINE p == x \div H
           q == y \div H
           r == x % H
<1>1. p \in Nat /\ q \in Nat /\ r \in Nat /\ x = H * p + r /\ y = H * q + r
  <2>1. p \in Nat /\ r \in Nat /\ x = H * p + r
    OBVIOUS
  <2>2. q \in Nat /\ y = H * q + (y % H)
    OBVIOUS
  <2>3. QED BY <2>1, <2>2
<1> HIDE DEF p, q, r
<1>2. x - y = H * (p - q)
  BY <1>1
<1>3. QED BY <1>1, <1>2

(* A whole turn leads to the same place. *)
LEMMA WholeTurn ==
  ASSUME NEW H \in Nat \ {0}, NEW x \in Nat
  PROVE  (x + H) % H = x % H
<1> DEFINE p == x \div H
           r == x % H
           q == (x + H) \div H
           t == (x + H) % H
<1>1. /\ p \in Nat /\ r \in 0..(H - 1) /\ x = H * p + r
      /\ q \in Nat /\ t \in 0..(H - 1) /\ x + H = H * q + t
  <2>1. p \in Nat /\ r \in 0..(H - 1) /\ x = H * p + r
    OBVIOUS
  <2>2. \A y \in Nat : y \div H \in Nat /\ y % H \in 0..(H - 1) /\ y = H * (y \div H) + (y % H)
    OBVIOUS
  <2>3. QED BY <2>1, <2>2
<1>2. SUFFICES r = t
  OBVIOUS
<1> HIDE DEF p, q, r, t
<1>3. r - t = H * (q - p - 1) /\ r - t < H /\ t - r < H
  BY <1>1
<1>4. q - p - 1 = 0
  <2>1. q - p - 1 >= 1 => H * (q - p - 1) >= H
    BY <1>1
  <2>2. q - p - 1 <= -1 => H * (q - p - 1) <= -H
    BY <1>1
  <2>3. QED BY <1>1, <1>3, <2>1, <2>2
<1>5. QED BY <1>1, <1>3, <1>4

-----------------------------------------------------------------------------
(* What the array holds, and what a new line does to it.                    *)

(* The n-th last line is in the array, and it is a line. *)
LEMMA EntryIsALine ==
  ASSUME IInv, NEW n \in 0..(HIST_SIZE - 1), n < hist_count
  PROVE  IsLine(Entry(n)) /\ Entry(n) = executed[Len(executed) - n]
<1>1. /\ HIST_SIZE \in Nat \ {0} /\ hist_count \in Nat
      /\ hist_count - 1 - n + HIST_SIZE \in Nat
  BY EditorAssumption DEF IInv, TypeOK
<1>2. (hist_count - 1 - n + HIST_SIZE) % HIST_SIZE \in 0..(HIST_SIZE - 1)
  BY <1>1
<1>3. QED BY <1>2 DEF IInv, TypeOK, HistoryIsTheLastLines, Entry

(* history_add writes over the oldest line only. *)
LEMMA AddKeepsTheOrder ==
  ASSUME IInv, buf # <<>>, history_add(buf), Executes(buf)
  PROVE  \A n \in 0..(HIST_SIZE - 1) : n < hist_count' => Entry(n)' = executed'[hist_count' - n]
<1> DEFINE H == HIST_SIZE
           c == hist_count
<1>1. /\ H \in Nat \ {0} /\ c \in Nat /\ c = Len(executed)
      /\ hist_count' = c + 1 /\ executed' = Append(executed, buf)
      /\ history' = [history EXCEPT ![c % H] = buf]
      /\ DOMAIN history = 0..(H - 1)
      /\ buf \in Seq(Chars)
  BY EditorAssumption DEF IInv, TypeOK, HistoryIsTheLastLines, history_add, Executes, IsLine
<1>2. c % H \in 0..(H - 1)
  BY <1>1
<1> SUFFICES ASSUME NEW n \in 0..(H - 1), n < c + 1
             PROVE  history'[(c + 1 - 1 - n + H) % H] = executed'[c + 1 - n]
  BY <1>1 DEF Entry
<1>3. CASE n = 0
  <2>0. c + 1 - 1 - n + H = c + H
    BY <1>1, <1>3
  <2>1. (c + 1 - 1 - n + H) % H = c % H
    BY <1>1, <2>0, WholeTurn
  <2>2. executed'[c + 1] = buf
    BY <1>1 DEF IInv
  <2>3. QED BY <1>1, <1>2, <1>3, <2>1, <2>2
<1>4. CASE n # 0
  <2>1. n - 1 \in 0..(H - 1) /\ n - 1 < c /\ c - n \in Nat
    BY <1>1, <1>4
  <2>2. /\ c + 1 - 1 - n + H = (c - n) + H
        /\ c - 1 - (n - 1) + H = (c - n) + H
    BY <1>1
  <2>3. ((c - n) + H) % H = (c - n) % H
    BY <1>1, <2>1, WholeTurn
  <2>4. (c - n) % H # c % H
    <3>1. c - n < c /\ c - (c - n) < H
      BY <1>1, <1>4
    <3> HIDE DEF c, H
    <3>2. QED BY <1>1, <2>1, <3>1, PlacesDiffer
  <2>5. ((c - n) + H) % H \in 0..(H - 1)
    BY <1>1, <2>1, <2>3
  <2>6. history[((c - n) + H) % H] = executed[c - (n - 1)]
    BY <2>1, <2>2 DEF IInv, HistoryIsTheLastLines, Entry
  <2>7. history'[((c - n) + H) % H] = history[((c - n) + H) % H]
    BY <1>1, <2>3, <2>4, <2>5
  <2>8. c + 1 - n \in 1..c /\ c - (n - 1) = c + 1 - n
    BY <1>1, <1>4, <2>1
  <2>9. executed'[c + 1 - n] = executed[c + 1 - n]
    BY <1>1, <2>8 DEF IInv
  <2>10. QED BY <2>2, <2>6, <2>7, <2>8, <2>9
<1>5. QED BY <1>3, <1>4

-----------------------------------------------------------------------------
(* Every key keeps the invariant, and the arrows show what they point to.   *)

LEMMA InitInv == Init => IInv
<1> SUFFICES ASSUME Init PROVE IInv
  OBVIOUS
<1>1. IsLine(<<>>)
  BY EditorAssumption DEF IsLine
<1>2. TypeOK
  BY <1>1, EditorAssumption DEF Init, TypeOK
<1>3. QED BY <1>2 DEF Init, IInv, HistoryIsTheLastLines

Shown == hist_cursor' # hist_cursor =>
           buf' = IF hist_cursor' = -1 THEN <<>>
                  ELSE executed'[Len(executed') - hist_cursor']

(* Steps that leave the history and what was executed alone. *)
LEMMA EditInv ==
  ASSUME IInv, UNCHANGED <<history, hist_count, executed>>,
         IsLine(buf'), hist_cursor' \in -1..(HIST_SIZE - 1), hist_cursor' < hist_count
  PROVE  IInv'
<1>1. TypeOK'
  BY DEF IInv, TypeOK, IsLine
<1>2. HistoryIsTheLastLines'
  BY DEF IInv, HistoryIsTheLastLines, Entry
<1>3. QED BY <1>1, <1>2 DEF IInv

LEMMA EnterInv == ASSUME IInv, Enter PROVE IInv' /\ Shown
<1>1. IsLine(buf') /\ hist_cursor' = -1 /\ buf' = <<>>
  BY EditorAssumption DEF Enter, IsLine
<1>2. CASE buf = <<>>
  <2>1. UNCHANGED <<history, hist_count, executed>> /\ hist_cursor' < hist_count
    BY <1>1, <1>2 DEF Enter, history_add, Executes, IInv, TypeOK
  <2>2. hist_cursor' \in -1..(HIST_SIZE - 1)
    BY <1>1, EditorAssumption
  <2>3. QED BY <1>1, <2>1, <2>2, EditInv DEF Shown
<1>3. CASE buf # <<>>
  <2>1. history_add(buf) /\ Executes(buf) /\ hist_count < MaxCommands
    BY DEF Enter
  <2>2. /\ history' = [history EXCEPT ![hist_count % HIST_SIZE] = buf]
        /\ hist_count' = hist_count + 1
        /\ executed' = Append(executed, buf)
    BY <1>3, <2>1 DEF history_add, Executes
  <2>3. /\ buf \in Seq(Chars) /\ IsLine(buf) /\ hist_count \in Nat
        /\ executed \in Seq(Seq(Chars)) /\ hist_count = Len(executed)
    BY DEF IInv, TypeOK, IsLine, HistoryIsTheLastLines
  <2>4. executed' \in Seq(Seq(Chars)) /\ Len(executed') = Len(executed) + 1
    BY <2>2, <2>3
  <2>5. TypeOK'
    <3>1. DOMAIN history' = 0..(HIST_SIZE - 1) /\ \A i \in DOMAIN history' : IsLine(history'[i])
      BY <2>2, <2>3 DEF IInv, TypeOK
    <3>2. hist_count' \in 0..MaxCommands
      BY <2>1, <2>2, <2>3, EditorAssumption
    <3>3. hist_cursor' \in -1..(HIST_SIZE - 1)
      BY <1>1, EditorAssumption
    <3>4. (\A i \in DOMAIN history : IsLine(history[i]))'
      BY <3>1 DEF IsLine
    <3>5. IsLine(buf)'
      BY <1>1 DEF IsLine
    <3>6. QED BY <3>1, <3>2, <3>3, <3>4, <3>5 DEF TypeOK
  <2>6. HistoryIsTheLastLines'
    BY <1>1, <1>3, <2>1, <2>2, <2>3, <2>4, AddKeepsTheOrder DEF HistoryIsTheLastLines
  <2>7. QED BY <1>1, <2>4, <2>5, <2>6 DEF IInv, Shown
<1>4. QED BY <1>2, <1>3

LEMMA KeyInv == ASSUME IInv, NEW k \in Keys, Key(k) PROVE IInv' /\ Shown
<1> /\ HIST_SIZE \in Nat \ {0} /\ LINE_MAX \in Nat \ {0}
    /\ buf \in Seq(Chars) /\ IsLine(buf) /\ hist_count \in Nat
    /\ hist_cursor \in -1..(HIST_SIZE - 1) /\ hist_cursor < hist_count
  BY EditorAssumption DEF IInv, TypeOK, IsLine, HistoryIsTheLastLines
<1>1. CASE Enter
  BY <1>1, EnterInv
<1>2. CASE Backspace
  <2>1. IsLine(buf')
    BY <1>2 DEF Backspace, IsLine
  <2>2. QED BY <1>2, <2>1, EditInv DEF Backspace, Shown
<1>3. CASE Up
  <2>1. CASE OlderExists
    <3> DEFINE n == hist_cursor + 1
    <3>1. n \in 0..(HIST_SIZE - 1) /\ n < hist_count
      BY <2>1 DEF OlderExists
    <3>2. hist_cursor' = n /\ buf' = Entry(n) /\ UNCHANGED <<history, hist_count, executed>>
      BY <1>3, <2>1 DEF Up
    <3>3. IsLine(Entry(n)) /\ Entry(n) = executed[Len(executed) - n]
      BY <3>1, EntryIsALine
    <3>4. IInv'
      BY <3>1, <3>2, <3>3, EditInv
    <3>5. QED BY <3>1, <3>2, <3>3, <3>4 DEF Shown
  <2>2. CASE ~OlderExists
    BY <1>3, <2>2, EditInv DEF Up, Shown
  <2>3. QED BY <2>1, <2>2
<1>4. CASE Down
  <2>1. CASE hist_cursor > 0
    <3> DEFINE n == hist_cursor - 1
    <3>1. n \in 0..(HIST_SIZE - 1) /\ n < hist_count
      BY <2>1
    <3>2. hist_cursor' = n /\ buf' = Entry(n) /\ UNCHANGED <<history, hist_count, executed>>
      BY <1>4, <2>1 DEF Down
    <3>3. IsLine(Entry(n)) /\ Entry(n) = executed[Len(executed) - n]
      BY <3>1, EntryIsALine
    <3>4. IInv'
      BY <3>1, <3>2, <3>3, EditInv
    <3>5. QED BY <3>1, <3>2, <3>3, <3>4 DEF Shown
  <2>2. CASE hist_cursor = 0
    <3>1. hist_cursor' = -1 /\ buf' = <<>> /\ UNCHANGED <<history, hist_count, executed>>
      BY <1>4, <2>2 DEF Down
    <3>2. IsLine(<<>>)
      BY DEF IsLine
    <3>3. QED BY <3>1, <3>2, EditInv DEF Shown
  <2>3. CASE hist_cursor < 0
    BY <1>4, <2>3, EditInv DEF Down, Shown
  <2>4. QED BY <2>1, <2>2, <2>3
<1>5. CASE k \in Chars /\ Type(k)
  <2>1. IsLine(buf')
    BY <1>5 DEF Type, IsLine
  <2>2. QED BY <1>5, <2>1, EditInv DEF Type, Shown
<1>6. QED BY <1>1, <1>2, <1>3, <1>4, <1>5 DEF Key

LEMMA StutterInv == ASSUME IInv, UNCHANGED vars PROVE IInv' /\ Shown
BY DEF IInv, TypeOK, IsLine, HistoryIsTheLastLines, Entry, vars, Shown

(* The invariant holds after any sequence of keys. *)
THEOREM EditorInvariant == Spec => []IInv
<1>1. IInv /\ [Next]_vars => IInv'
  BY KeyInv, StutterInv DEF Next
<1>2. QED BY <1>1, InitInv, PTL DEF Spec

(* No line, typed or recalled, and no index leaves its array                *)
(* (readline_with_history, history_add), for any LINE_MAX and HIST_SIZE.    *)
THEOREM EditorTypes == Spec => []TypeOK
<1>1. IInv => TypeOK
  BY DEF IInv
<1>2. QED BY <1>1, EditorInvariant, PTL

(* The index formula of the arrow keys finds the n-th last command in the   *)
(* circular array, however often the array has wrapped.                     *)
THEOREM HistoryStaysRight == Spec => []HistoryIsTheLastLines
<1>1. IInv => HistoryIsTheLastLines
  BY DEF IInv
<1>2. QED BY <1>1, EditorInvariant, PTL

(* Whenever an arrow or Enter moves the cursor, the line becomes the one    *)
(* the cursor points to (readline_with_history).                            *)
THEOREM ArrowsAreRight == Spec => ArrowsShowTheLine
<1>1. IInv /\ [Next]_vars => [Shown]_vars
  BY KeyInv, StutterInv DEF Next
<1>2. QED BY <1>1, EditorInvariant, PTL DEF Spec, ArrowsShowTheLine, Shown

-----------------------------------------------------------------------------
(* Induction over the naturals, for sets: a set of numbers has a least one. *)

Below == {r \in Nat \X Nat : r[1] < r[2]}

LEMMA LeastNatural ==
  ASSUME NEW T, T \subseteq Nat, T # {}
  PROVE  \E x \in T : \A y \in T : x <= y
<1>1. IsWellFoundedOn(Below, Nat)
  BY NatLessThanWellFounded DEF OpToRel, Below
<1>2. PICK x \in T : \A y \in T : ~ (<<y, x>> \in Below)
  BY <1>1, WFMin
<1>3. ASSUME NEW y \in T PROVE x <= y
  <2>1. x \in Nat /\ y \in Nat
    OBVIOUS
  <2>2. CASE y < x
    <3>1. <<y, x>> \in Nat \X Nat /\ <<y, x>>[1] = y /\ <<y, x>>[2] = x
      BY <2>1
    <3>2. <<y, x>> \in Below
      BY <2>2, <3>1, Zenon DEF Below
    <3> QED BY <1>2, <3>2
  <2> QED BY <2>1, <2>2
<1> QED BY <1>3

LEMMA SetInduction ==
  ASSUME NEW S, 0 \in S, \A n \in Nat : n \in S => n + 1 \in S
  PROVE  Nat \subseteq S
<1> SUFFICES ASSUME Nat \ S # {} PROVE FALSE
  OBVIOUS
<1>1. PICK x \in Nat \ S : \A y \in Nat \ S : x <= y
  BY LeastNatural
<1>2. x # 0 /\ x - 1 \in Nat /\ x - 1 \in S
  BY <1>1
<1> QED BY <1>1, <1>2

LEMMA FirstIsLeast ==
  ASSUME NEW S, S \subseteq Nat, S # {}
  PROVE  First(S) \in S /\ \A q \in S : First(S) <= q
<1>1. \E p \in S : \A q \in S : p <= q
  BY LeastNatural
<1> QED BY <1>1 DEF First

-----------------------------------------------------------------------------
(* The words of a line.                                                    *)

LEMMA SkipStops ==
  ASSUME NEW line \in Seq(Chars), NEW p \in Places(line)
  PROVE  LET s == Skip(line, p) IN
         /\ s \in Places(line) /\ p <= s /\ ~Blank(line, s)
         /\ \A q \in Nat : p <= q /\ q < s => Blank(line, q)
<1> DEFINE S == {q \in Places(line) : q >= p /\ ~Blank(line, q)}
<1>1. Len(line) \in Nat /\ p \in Nat /\ p >= 1 /\ Len(line) + 1 \in S /\ S \subseteq Nat
  BY DEF Places, Blank
<1>2. First(S) \in S /\ \A q \in S : First(S) <= q
  BY <1>1, FirstIsLeast
<1>3. ASSUME NEW q \in Nat, p <= q, q < First(S) PROVE Blank(line, q)
  <2>1. q \in Places(line) /\ First(S) \in Nat
    BY <1>1, <1>2, <1>3 DEF Places
  <2>2. q \notin S
    BY <1>2, <1>3, <2>1
  <2> QED BY <1>3, <2>1, <2>2
<1>4. First(S) = Skip(line, p)
  BY DEF Skip
<1> QED BY <1>2, <1>3, <1>4

LEMMA WordEndStops ==
  ASSUME NEW line \in Seq(Chars), NEW p \in Places(line)
  PROVE  LET e == WordEnd(line, p) IN
         /\ e \in Places(line) /\ p <= e /\ ~NonBlank(line, e)
         /\ \A q \in Nat : p <= q /\ q < e => NonBlank(line, q)
<1> DEFINE S == {q \in Places(line) : q >= p /\ ~NonBlank(line, q)}
<1>1. Len(line) \in Nat /\ p \in Nat /\ p >= 1 /\ Len(line) + 1 \in S /\ S \subseteq Nat
  BY DEF Places, NonBlank
<1>2. First(S) \in S /\ \A q \in S : First(S) <= q
  BY <1>1, FirstIsLeast
<1>3. ASSUME NEW q \in Nat, p <= q, q < First(S) PROVE NonBlank(line, q)
  <2>1. q \in Places(line) /\ First(S) \in Nat
    BY <1>1, <1>2, <1>3 DEF Places
  <2>2. q \notin S
    BY <1>2, <1>3, <2>1
  <2> QED BY <1>3, <2>1, <2>2
<1>4. First(S) = WordEnd(line, p)
  BY DEF WordEnd
<1> QED BY <1>2, <1>3, <1>4

(* The starts before place p. *)
Before(line, p) == {q \in WordStarts(line) : q < p}

LEMMA StartsAreFinite ==
  ASSUME NEW line \in Seq(Chars)
  PROVE  /\ IsFiniteSet(WordStarts(line)) /\ Cardinality(WordStarts(line)) \in Nat
         /\ WordStarts(line) \subseteq 1..Len(line) /\ WordStarts(line) \subseteq Nat
         /\ \A p : IsFiniteSet(Before(line, p)) /\ Cardinality(Before(line, p)) \in Nat
<1>1. Len(line) \in Nat /\ WordStarts(line) \subseteq 1..Len(line)
  BY DEF WordStarts
<1>2. IsFiniteSet(1..Len(line))
  BY <1>1, FS_Interval
<1>3. IsFiniteSet(WordStarts(line))
  BY <1>1, <1>2, FS_Subset
<1>4. \A p : IsFiniteSet(Before(line, p))
  BY <1>3, FS_Subset DEF Before
<1> QED BY <1>1, <1>3, <1>4, FS_CardinalityType

(* No word starts inside another. *)
LEMMA WordEndPasses ==
  ASSUME NEW line \in Seq(Chars), NEW s \in WordStarts(line)
  PROVE  Before(line, WordEnd(line, s)) = Before(line, s) \cup {s}
<1> DEFINE e == WordEnd(line, s)
<1>1. s \in 1..Len(line) /\ s \in Nat /\ Len(line) \in Nat /\ s \in Places(line) /\ NonBlank(line, s)
  BY StartsAreFinite DEF Places, WordStarts
<1>2. /\ e \in Places(line) /\ s <= e /\ ~NonBlank(line, e)
      /\ \A q \in Nat : s <= q /\ q < e => NonBlank(line, q)
  BY <1>1, WordEndStops
<1> HIDE DEF e
<1>3. e \in Nat /\ s < e
  BY <1>1, <1>2 DEF Places
<1>4. ASSUME NEW q \in WordStarts(line), q < e, s < q PROVE FALSE
  <2>1. q \in Nat /\ q - 1 \in Nat /\ s <= q - 1 /\ q - 1 < e /\ q # 1
    BY <1>1, <1>3, <1>4, StartsAreFinite
  <2>2. NonBlank(line, q - 1) /\ Blank(line, q - 1)
    BY <1>2, <2>1 DEF WordStarts
  <2> QED BY <2>2 DEF Blank, NonBlank
<1>5. Before(line, e) = Before(line, s) \cup {s}
  BY <1>1, <1>3, <1>4, StartsAreFinite DEF Before
<1> QED BY <1>5 DEF e

(* Where the loop goes from the beginning of the line, or from the end of a *)
(* word: to the next start, if there is one.                                *)
LEMMA SkipFindsTheNextStart ==
  ASSUME NEW line \in Seq(Chars), NEW p \in Places(line), p = 1 \/ ~NonBlank(line, p)
  PROVE  LET s == Skip(line, p) IN
         \/ s = Len(line) + 1 /\ Before(line, p) = WordStarts(line)
         \/ s \in WordStarts(line) /\ Before(line, s) = Before(line, p)
<1> DEFINE s == Skip(line, p)
<1>1. /\ s \in Places(line) /\ p <= s /\ ~Blank(line, s)
      /\ \A q \in Nat : p <= q /\ q < s => Blank(line, q)
  BY SkipStops
<1> HIDE DEF s
<1>2. Len(line) \in Nat /\ p \in Nat /\ s \in Nat /\ p >= 1 /\ s >= 1 /\ s <= Len(line) + 1
  BY <1>1 DEF Places
<1>3. ASSUME NEW q \in WordStarts(line), p <= q PROVE s <= q
  BY <1>1, <1>2, <1>3 DEF WordStarts, Blank, NonBlank
<1>4. CASE s = Len(line) + 1
  <2>1. Before(line, p) = WordStarts(line)
    BY <1>2, <1>3, <1>4, StartsAreFinite DEF Before
  <2> QED BY <1>4, <2>1 DEF s
<1>5. CASE s # Len(line) + 1
  <2>1. NonBlank(line, s) /\ s \in 1..Len(line)
    BY <1>1, <1>2, <1>5 DEF Blank, NonBlank
  <2>2. s = 1 \/ Blank(line, s - 1)
    <3>1. CASE s > p
      BY <1>1, <1>2, <3>1
    <3>2. CASE s = p
      BY <2>1, <3>2
    <3> QED BY <1>1, <1>2, <3>1, <3>2
  <2>3. s \in WordStarts(line)
    BY <2>1, <2>2 DEF WordStarts
  <2>4. Before(line, s) = Before(line, p)
    BY <1>1, <1>2, <1>3, StartsAreFinite DEF Before
  <2> QED BY <2>3, <2>4 DEF s
<1> QED BY <1>4, <1>5

LEMMA OneMoreStart ==
  ASSUME NEW line \in Seq(Chars), NEW s \in WordStarts(line)
  PROVE  /\ {q \in WordStarts(line) : q <= s} = Before(line, s) \cup {s}
         /\ Cardinality(Before(line, s) \cup {s}) = Cardinality(Before(line, s)) + 1
         /\ Cardinality(Before(line, s)) + 1 <= Cardinality(WordStarts(line))
<1>1. s \in Nat /\ WordStarts(line) \subseteq Nat /\ s \notin Before(line, s)
  BY StartsAreFinite DEF Before
<1>2. {q \in WordStarts(line) : q <= s} = Before(line, s) \cup {s}
  BY <1>1 DEF Before
<1>3. Cardinality(Before(line, s) \cup {s}) = Cardinality(Before(line, s)) + 1
  BY <1>1, StartsAreFinite, FS_AddElement
<1>4. Before(line, s) \cup {s} \subseteq WordStarts(line)
  BY DEF Before
<1>5. Cardinality(Before(line, s) \cup {s}) <= Cardinality(WordStarts(line))
  BY <1>4, StartsAreFinite, FS_Subset
<1> QED BY <1>2, <1>3, <1>5

LEMMA SkipStays ==
  ASSUME NEW line \in Seq(Chars), NEW p \in Places(line), ~Blank(line, p)
  PROVE  Skip(line, p) = p
<1>1. p \in Nat /\ Skip(line, p) \in Nat
  BY SkipStops DEF Places
<1> QED BY <1>1, SkipStops

LEMMA WordIsWord ==
  ASSUME NEW line \in Seq(Chars), NEW p \in Places(line), Skip(line, p) \in WordStarts(line)
  PROVE  IsWord(Word(line, p), line, Skip(line, p))
<1> DEFINE s == Skip(line, p)
           e == WordEnd(line, s)
           w == SubSeq(line, s, e - 1)
<1>1. s \in 1..Len(line) /\ s \in Nat /\ s >= 1 /\ Len(line) \in Nat /\ s \in Places(line)
  BY StartsAreFinite DEF Places
<1>2. /\ e \in Places(line) /\ s <= e /\ ~NonBlank(line, e)
      /\ \A q \in Nat : s <= q /\ q < e => NonBlank(line, q)
  BY <1>1, WordEndStops
<1> HIDE DEF s, e
<1>3. e \in Nat /\ e - 1 \in Nat /\ e - 1 <= Len(line) /\ s <= (e - 1) + 1
  BY <1>1, <1>2 DEF Places
<1>4. Len(w) = e - s
  BY <1>1, <1>3, SubSeqProperties
<1>5. s + Len(w) - 1 = e - 1 /\ s + Len(w) = e
  BY <1>1, <1>3, <1>4
<1>6. \A q \in s..(e - 1) : NonBlank(line, q)
  BY <1>1, <1>2, <1>3
<1>7. IsWord(w, line, s)
  BY <1>2, <1>5, <1>6 DEF IsWord
<1> QED BY <1>7 DEF Word, s, e

-----------------------------------------------------------------------------
(* The loop of execute_cmd.                                                *)

NextPtr(line, p) == Skip(line, WordEnd(line, Skip(line, p)))

(* The recursive function ptr of execute_cmd, of which there is one. *)
IsPtr(f, line, max) ==
  f = [n \in 0..max |-> IF n = 0 THEN 1 ELSE NextPtr(line, f[n - 1])]

LEMMA PtrExists ==
  ASSUME NEW line, NEW max \in Nat
  PROVE  \E f : IsPtr(f, line, max)
<1> DEFINE S == {m \in Nat : \E f : IsPtr(f, line, m)}
<1>1. 0 \in S
  <2>1. IsPtr([n \in 0..0 |-> 1], line, 0)
    BY DEF IsPtr
  <2> QED BY <2>1
<1>2. ASSUME NEW m \in Nat, m \in S PROVE m + 1 \in S
  <2>1. PICK f : IsPtr(f, line, m)
    BY <1>2
  <2> DEFINE g == [n \in 0..(m + 1) |-> IF n = 0 THEN 1 ELSE NextPtr(line, f[n - 1])]
  <2>2. \A n \in 0..m : f[n] = IF n = 0 THEN 1 ELSE NextPtr(line, f[n - 1])
    BY <2>1 DEF IsPtr
  <2>3. \A n \in 0..m : g[n] = f[n]
    BY <2>2
  <2>4. \A n \in 0..(m + 1) : n # 0 => n - 1 \in 0..m /\ g[n - 1] = f[n - 1]
    BY <2>3
  <2>5. IsPtr(g, line, m + 1)
    BY <2>4 DEF IsPtr
  <2> QED BY <2>5
<1>3. Nat \subseteq S
  <2> HIDE DEF S
  <2> QED BY <1>1, <1>2, SetInduction
<1> QED BY <1>3

(* After n words the loop is before the start that has n starts before it,  *)
(* or at the end of the line, and there are no more.                        *)
AfterWords(f, line, n) ==
  /\ f[n] \in Places(line)
  /\ n = 0 => f[n] = 1
  /\ n # 0 => Skip(line, f[n]) = f[n]
  /\ LET s == Skip(line, f[n]) IN
     \/ s = Len(line) + 1 /\ Cardinality(WordStarts(line)) <= n
     \/ s \in WordStarts(line) /\ Cardinality(Before(line, s)) = n

LEMMA NoStartBefore ==
  ASSUME NEW line \in Seq(Chars)
  PROVE  Before(line, 1) = {} /\ Cardinality({}) = 0
BY StartsAreFinite, FS_EmptySet DEF Before

LEMMA LoopStarts ==
  ASSUME NEW line \in Seq(Chars), NEW f, f[0] = 1
  PROVE  AfterWords(f, line, 0)
<1>1. 1 \in Places(line)
  BY DEF Places
<1>2. Cardinality(Before(line, 1)) = 0
  BY NoStartBefore
<1>3. \/ Skip(line, 1) = Len(line) + 1 /\ Before(line, 1) = WordStarts(line)
      \/ Skip(line, 1) \in WordStarts(line) /\ Before(line, Skip(line, 1)) = Before(line, 1)
  BY <1>1, SkipFindsTheNextStart
<1> QED BY <1>1, <1>2, <1>3 DEF AfterWords

LEMMA LoopGoesOn ==
  ASSUME NEW line \in Seq(Chars), NEW f, NEW n \in Nat,
         AfterWords(f, line, n), f[n + 1] = NextPtr(line, f[n])
  PROVE  AfterWords(f, line, n + 1)
<1> DEFINE s == Skip(line, f[n])
           e == WordEnd(line, s)
           r == Skip(line, e)
<1>1. f[n] \in Places(line) /\ s \in Places(line)
  BY SkipStops DEF AfterWords
<1>2. e \in Places(line) /\ ~NonBlank(line, e) /\ s <= e
  BY <1>1, WordEndStops
<1>3. r \in Places(line) /\ ~Blank(line, r) /\ e <= r
  BY <1>2, SkipStops
<1>4. Skip(line, r) = r /\ f[n + 1] = r
  BY <1>3, SkipStays DEF NextPtr
<1>5. \/ r = Len(line) + 1 /\ Before(line, e) = WordStarts(line)
      \/ r \in WordStarts(line) /\ Before(line, r) = Before(line, e)
  BY <1>2, SkipFindsTheNextStart
<1>6. \/ s = Len(line) + 1 /\ Cardinality(WordStarts(line)) <= n
      \/ s \in WordStarts(line) /\ Cardinality(Before(line, s)) = n
  BY DEF AfterWords
<1> HIDE DEF s, e, r
<1>7. CASE s = Len(line) + 1 /\ Cardinality(WordStarts(line)) <= n
  <2>1. r = Len(line) + 1 /\ Cardinality(WordStarts(line)) <= n + 1
    BY <1>1, <1>2, <1>3, <1>7, StartsAreFinite DEF Places
  <2> QED BY <1>3, <1>4, <2>1 DEF AfterWords
<1>8. CASE s \in WordStarts(line) /\ Cardinality(Before(line, s)) = n
  <2>1. Before(line, e) = Before(line, s) \cup {s}
    BY <1>8, WordEndPasses DEF e
  <2>2. Cardinality(Before(line, e)) = n + 1
    BY <1>8, <2>1, OneMoreStart
  <2> QED BY <1>3, <1>4, <1>5, <2>2, StartsAreFinite DEF AfterWords
<1> QED BY <1>6, <1>7, <1>8

LEMMA LoopIsRight ==
  ASSUME NEW line \in Seq(Chars), NEW max \in Nat, NEW f, IsPtr(f, line, max)
  PROVE  \A n \in 0..max : AfterWords(f, line, n)
<1> DEFINE S == {n \in Nat : n <= max => AfterWords(f, line, n)}
<1>1. /\ f[0] = 1
      /\ \A n \in Nat : n + 1 <= max => f[n + 1] = NextPtr(line, f[n])
  <2>1. \A n \in 0..max : f[n] = IF n = 0 THEN 1 ELSE NextPtr(line, f[n - 1])
    BY DEF IsPtr
  <2>2. f[0] = 1
    BY <2>1
  <2>3. ASSUME NEW n \in Nat, n + 1 <= max PROVE f[n + 1] = NextPtr(line, f[n])
    <3>1. n + 1 \in 0..max /\ n + 1 # 0 /\ (n + 1) - 1 = n
      BY <2>3
    <3> QED BY <2>1, <3>1
  <2> QED BY <2>2, <2>3
<1>2. 0 \in S
  BY <1>1, LoopStarts
<1>3. ASSUME NEW n \in Nat, n \in S PROVE n + 1 \in S
  <2> SUFFICES ASSUME n + 1 <= max PROVE AfterWords(f, line, n + 1)
    OBVIOUS
  <2>1. AfterWords(f, line, n)
    BY <1>3
  <2> QED BY <1>1, <2>1, LoopGoesOn
<1>4. Nat \subseteq S
  <2> HIDE DEF S
  <2> QED BY <1>2, <1>3, SetInduction
<1> QED BY <1>4

(* What execute_cmd returns, by the function ptr of its loop. *)
NumArgs(f, line, max) == First({n \in 0..max : n = max \/ f[n] = Len(line) + 1})

LEMMA CutByPtr ==
  ASSUME NEW line, NEW max \in Nat
  PROVE  \E f : /\ IsPtr(f, line, max)
                /\ execute_cmd(line, max) =
                     [k \in 1..NumArgs(f, line, max) |-> Word(line, f[k - 1])]
<1> DEFINE f == CHOOSE g : IsPtr(g, line, max)
<1>1. IsPtr(f, line, max)
  BY PtrExists
<1>2. execute_cmd(line, max) = [k \in 1..NumArgs(f, line, max) |-> Word(line, f[k - 1])]
  BY Zenon DEF execute_cmd, IsPtr, NextPtr, NumArgs
<1> HIDE DEF f
<1> QED BY <1>1, <1>2

LEMMA LoopEnds ==
  ASSUME NEW line \in Seq(Chars), line # <<>>, NEW max \in Nat \ {0}, NEW f, IsPtr(f, line, max)
  PROVE  LET m == NumArgs(f, line, max) IN
         /\ m \in 1..max /\ (m = max \/ f[m] = Len(line) + 1)
         /\ \A n \in 0..max : n < m => f[n] # Len(line) + 1
<1> DEFINE S == {n \in 0..max : n = max \/ f[n] = Len(line) + 1}
<1>1. S \subseteq Nat /\ max \in S
  OBVIOUS
<1>2. First(S) \in S /\ \A n \in S : First(S) <= n
  BY <1>1, FirstIsLeast
<1>3. f[0] = 1 /\ Len(line) \in Nat /\ Len(line) # 0
  BY LoopIsRight, EmptySeq DEF AfterWords
<1>4. 0 \notin S
  BY <1>3
<1>5. ASSUME NEW n \in 0..max, n < First(S) PROVE f[n] # Len(line) + 1
  BY <1>2, <1>5
<1>6. First(S) = NumArgs(f, line, max)
  BY DEF NumArgs
<1>7. First(S) \in 1..max /\ (First(S) = max \/ f[First(S)] = Len(line) + 1)
  BY <1>2, <1>4
<1> HIDE DEF S
<1> QED BY <1>5, <1>6, <1>7

LEMMA CutIsRight ==
  ASSUME NEW line \in Seq(Chars), line # <<>>, NEW max \in Nat \ {0}
  PROVE  IsCut(execute_cmd(line, max), line, max)
<1>1. PICK f : /\ IsPtr(f, line, max)
               /\ execute_cmd(line, max) =
                     [k \in 1..NumArgs(f, line, max) |-> Word(line, f[k - 1])]
  BY CutByPtr
<1> DEFINE m == NumArgs(f, line, max)
           N == Cardinality(WordStarts(line))
           args == [k \in 1..m |-> Word(line, f[k - 1])]
<1>2. /\ m \in 1..max /\ (m = max \/ f[m] = Len(line) + 1)
      /\ \A n \in 0..max : n < m => f[n] # Len(line) + 1
  BY <1>1, LoopEnds
<1>3. \A n \in 0..max : AfterWords(f, line, n)
  BY <1>1, LoopIsRight
<1>4. m \in Nat /\ m >= 1 /\ m <= max /\ N \in Nat /\ Len(line) \in Nat
  BY <1>2, StartsAreFinite
<1> HIDE DEF m, N
<1>5. CASE WordStarts(line) = {}
  <2>1. Skip(line, f[0]) = Len(line) + 1 /\ f[0] = 1 /\ N = 0
    <3>1. AfterWords(f, line, 0)
      BY <1>3
    <3> QED BY <1>5, <3>1, FS_EmptySet DEF AfterWords, N
  <2>2. m = 1
    <3>1. AfterWords(f, line, 1) /\ 1 \in 0..max
      BY <1>3
    <3>2. f[1] = Len(line) + 1
      BY <1>5, <3>1 DEF AfterWords
    <3> QED BY <1>2, <1>4, <3>1, <3>2
  <2>3. WordEnd(line, Len(line) + 1) = Len(line) + 1
    <3>1. Len(line) + 1 \in Places(line)
      BY <1>4 DEF Places
    <3> QED BY <1>4, <3>1, WordEndStops DEF Places
  <2>4. Word(line, f[0]) = <<>>
    BY <1>4, <2>1, <2>3, SubSeqEmpty DEF Word
  <2>5. args = << <<>> >>
    BY <2>2, <2>4
  <2> QED BY <1>1, <1>5, <2>5 DEF IsCut, m
<1>6. CASE WordStarts(line) # {}
  <2>1. N > 0
    BY <1>4, <1>6, StartsAreFinite, FS_EmptySet DEF N
  <2>2. ASSUME NEW k \in 1..m
        PROVE  /\ f[k - 1] \in Places(line) /\ Skip(line, f[k - 1]) \in WordStarts(line)
               /\ Cardinality({q \in WordStarts(line) : q <= Skip(line, f[k - 1])}) = k
               /\ k <= N
    <3> DEFINE p == Skip(line, f[k - 1])
    <3>1. k - 1 \in 0..max /\ k - 1 < m /\ k \in Nat
      BY <1>4
    <3>2. AfterWords(f, line, k - 1) /\ f[k - 1] # Len(line) + 1
      BY <1>2, <1>3, <3>1
    <3>3. ~ (Skip(line, f[k - 1]) = Len(line) + 1 /\ N <= k - 1)
      BY <1>4, <2>1, <3>1, <3>2 DEF AfterWords
    <3>4. /\ f[k - 1] \in Places(line)
          /\ p \in WordStarts(line) /\ Cardinality(Before(line, p)) = k - 1
      BY <3>2, <3>3 DEF AfterWords, N
    <3> HIDE DEF p
    <3>5. /\ {q \in WordStarts(line) : q <= p} = Before(line, p) \cup {p}
          /\ Cardinality(Before(line, p) \cup {p}) = (k - 1) + 1
          /\ (k - 1) + 1 <= N
      BY <3>4, OneMoreStart DEF N
    <3>6. (k - 1) + 1 = k
      BY <3>1
    <3> QED BY <3>4, <3>5, <3>6 DEF p
  <2>3. m <= N
    <3>1. m \in 1..m
      BY <1>4
    <3> QED BY <2>2, <3>1
  <2>4. m = max \/ N <= m
    <3>1. AfterWords(f, line, m)
      BY <1>3, <1>4
    <3>2. CASE f[m] = Len(line) + 1
      <4>1. Skip(line, f[m]) \notin WordStarts(line)
        BY <1>4, <3>1, <3>2, StartsAreFinite DEF AfterWords
      <4> QED BY <3>1, <4>1 DEF AfterWords, N
    <3> QED BY <1>2, <3>2
  <2>5. Len(args) = m
    BY <1>4
  <2>6. m = IF N < max THEN N ELSE max
    BY <1>4, <2>3, <2>4
  <2>7. ASSUME NEW k \in 1..m
        PROVE  \E p \in WordStarts(line) :
                 Cardinality({q \in WordStarts(line) : q <= p}) = k /\ IsWord(args[k], line, p)
    <3> DEFINE p == Skip(line, f[k - 1])
    <3>1. p \in WordStarts(line) /\ Cardinality({q \in WordStarts(line) : q <= p}) = k
      BY <2>2
    <3>2. args[k] = Word(line, f[k - 1])
      OBVIOUS
    <3>3. IsWord(args[k], line, p)
      BY <2>2, <3>2, WordIsWord
    <3> HIDE DEF p
    <3> QED BY <3>1, <3>3
  <2> HIDE DEF args
  <2>8. execute_cmd(line, max) = args
    BY <1>1 DEF args, m
  <2> QED BY <1>6, <2>5, <2>6, <2>7, <2>8 DEF IsCut, N
<1> QED BY <1>5, <1>6

(* What a line that is executed is cut into. *)
WordsGiven ==
  executed' # executed =>
    LET line == executed'[Len(executed')]
    IN  /\ IsCut(argv', line, MAXARGS)
        /\ \A max \in 1..(MAXARGS - 1) : IsCut(execute_cmd(line, max), line, max)

LEMMA EnterGivesTheWords == ASSUME IInv, Enter PROVE WordsGiven
<1> SUFFICES ASSUME executed' # executed PROVE WordsGiven
  BY DEF WordsGiven
<1>1. buf # <<>> /\ executed' = Append(executed, buf) /\ argv' = execute_cmd(buf, MAXARGS)
  BY DEF Enter, history_add, Executes
<1>2. buf \in Seq(Chars) /\ executed \in Seq(Seq(Chars))
  BY DEF IInv, TypeOK, IsLine
<1>3. executed'[Len(executed')] = buf
  BY <1>1, <1>2
<1>4. MAXARGS \in Nat \ {0} /\ \A max \in 1..(MAXARGS - 1) : max \in Nat \ {0}
  BY EditorAssumption
<1>5. IsCut(argv', buf, MAXARGS)
  BY <1>1, <1>2, <1>4, CutIsRight
<1>6. \A max \in 1..(MAXARGS - 1) : IsCut(execute_cmd(buf, max), buf, max)
  BY <1>1, <1>2, <1>4, CutIsRight
<1> QED BY <1>3, <1>5, <1>6 DEF WordsGiven

(* Whatever blanks precede, separate or follow them, a command is given the *)
(* words of the line in their order, up to the limit of execute_cmd.        *)
THEOREM WordsAreGiven == Spec => ArgumentsAreTheWords
<1>1. IInv /\ [Next]_vars => [WordsGiven]_vars
  <2> SUFFICES ASSUME IInv, Next PROVE WordsGiven
    OBVIOUS
  <2>1. PICK k \in Keys : Key(k)
    BY DEF Next
  <2>2. CASE Enter
    BY <2>2, EnterGivesTheWords
  <2>3. CASE Backspace \/ Up \/ Down \/ \E c \in Chars : Type(c)
    <3>1. executed' = executed
      BY <2>3 DEF Backspace, Up, Down, Type
    <3> QED BY <3>1 DEF WordsGiven
  <2> QED BY <2>1, <2>2, <2>3 DEF Key
<1> QED BY <1>1, EditorInvariant, PTL DEF Spec, ArgumentsAreTheWords, WordsGiven
=============================================================================
