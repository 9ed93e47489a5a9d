---------------------------- MODULE ConsoleProofs ----------------------------
(***************************************************************************)
(* What Console promises, for every screen, prompt, keyboard and length of *)
(* the command buffer: the stores of the writer outside interrupts and the *)
(* handlers that come between them keep the cursor on the screen, the      *)
(* line Enter would run stands after a whole prompt, whatever else the     *)
(* echo has printed there, and the keyboard handler is a LineEditor.       *)
(***************************************************************************)
EXTENDS Console, SequenceTheorems, WellFoundedInduction, TLAPS

Glyphs == Chars \cup {PromptChar, Printed, Space, Stale}
Screens == [row : Rows, column : Columns, cells : [Columns -> Glyphs]]

\* What terminal_putchar is called with.
OutputChars == Chars \cup {PromptChar, Printed, NewLine}

\* What the register of the writer holds, by the store that comes next.
WriterTyped ==
    /\ writer.at = "put" => writer.value \in Columns
    /\ writer.at \in {"fill", "wrap", "newline"} => writer.value \in Rows

\* What is left in the buffer from older lines may hold a NUL, the line not.
LineTyped == \A i \in 0..(cmd_pos - 1) : cmd_buffer[i] \in Chars

\* Between a prompt and the cursor every cell is known: what is put into the
\* next one stays there.
RowKept ==
    PromptShown => \A x \in 0..(terminal.column - 1) : terminal.cells[x] # Stale

ConsoleIInv == TypeOK /\ WriterTyped /\ LineTyped /\ RowKept /\ EchoMatches

-----------------------------------------------------------------------------
(* The terminal.                                                           *)

LEMMA Sizes ==
    /\ Width \in Nat /\ Height \in Nat /\ PromptLen \in Nat /\ MaxLen \in Nat
    /\ ExitLen \in Nat
    /\ Height > 0 /\ PromptLen > 0 /\ MaxLen > 0 /\ PromptLen + MaxLen <= Width
BY ConsoleAssumption

LEMMA Marks ==
    /\ NUL \notin Chars /\ NewLine \notin Chars
    /\ PromptChar \notin Chars /\ Stale \notin Chars
BY ConsoleAssumption

LEMMA Corner == 0 \in Rows /\ 0 \in Columns
BY Sizes DEF Rows, Columns

LEMMA NextRowInside ==
  ASSUME NEW row \in Rows
  PROVE  NextRow(row) \in Rows
BY Sizes DEF Rows, NextRow

\* A cell that Put leaves with c stands after cells that were kept.
LEMMA PutStores ==
  ASSUME NEW t \in Screens, NEW x \in Columns, NEW c \in Glyphs
  PROVE  /\ Put(t, x, c) \in Screens
         /\ Put(t, x, c).row = t.row /\ Put(t, x, c).column = t.column
         /\ Put(t, x, c).cells[x] \in {c, Stale}
         /\ x # 0 /\ t.cells[x - 1] # Stale => Put(t, x, c).cells[x] = c
         /\ \A y \in Columns : y # x => Put(t, x, c).cells[y] = t.cells[y]
<1> DEFINE keeps == IF x = 0 THEN c = PromptChar ELSE t.cells[x - 1] # Stale
           kept == IF keeps THEN c ELSE Stale
<1>1. kept \in Glyphs /\ kept \in {c, Stale}
  BY DEF Glyphs
<1>2. x # 0 /\ t.cells[x - 1] # Stale => kept = c
  OBVIOUS
<1>3. Put(t, x, c) = [t EXCEPT !.cells[x] = kept]
  BY DEF Put
<1> HIDE DEF keeps, kept
<1> QED
  BY <1>1, <1>2, <1>3 DEF Screens

LEMMA AllStaleTyped == AllStale \in [Columns -> Glyphs]
BY DEF AllStale, Glyphs

LEMMA ClearedTyped == Cleared \in Screens
BY Corner DEF Cleared, Screens, Glyphs

LEMMA ForgetStores ==
  ASSUME NEW t \in Screens
  PROVE  Forget(t) \in Screens /\ Forget(t).cells = AllStale
BY AllStaleTyped DEF Forget, Screens

LEMMA AdvanceRowStores ==
  ASSUME NEW t \in Screens
  PROVE  AdvanceRow(t) \in Screens /\ AdvanceRow(t).column = 0
<1>1. CASE t.row + 1 = Height
  BY <1>1, ClearedTyped DEF AdvanceRow, Cleared
<1>2. CASE t.row + 1 # Height
  <2>1. t.row + 1 \in Rows
    BY <1>2, Sizes DEF Rows, Screens
  <2> QED
    BY <1>2, <2>1, Corner, AllStaleTyped DEF AdvanceRow, Screens
<1> QED
  BY <1>1, <1>2

\* terminal_putchar keeps the cursor on the screen.
LEMMA PutCharTyped ==
  ASSUME NEW t \in Screens, NEW c \in OutputChars
  PROVE  PutChar(t, c) \in Screens
<1>1. CASE c = NewLine
  BY <1>1, AdvanceRowStores DEF PutChar
<1>2. CASE c # NewLine /\ t.column + 1 = Width
  <2>1. PutChar(t, c) = [row |-> NextRow(t.row), column |-> 0, cells |-> AllStale]
    BY <1>2 DEF PutChar
  <2>2. NextRow(t.row) \in Rows
    BY NextRowInside DEF Screens
  <2> QED
    BY <2>1, <2>2, Corner, AllStaleTyped DEF Screens
<1>3. CASE c # NewLine /\ t.column + 1 # Width
  <2>1. PutChar(t, c) = [Put(t, t.column, c) EXCEPT !.column = @ + 1]
    BY <1>3 DEF PutChar
  <2>2. Put(t, t.column, c) \in Screens /\ Put(t, t.column, c).column = t.column
    BY <1>3, PutStores DEF Screens, OutputChars, Glyphs
  <2>3. t.column + 1 \in Columns
    BY <1>3, Sizes DEF Screens, Columns
  <2> QED
    BY <2>1, <2>2, <2>3 DEF Screens
<1> QED
  BY <1>1, <1>2, <1>3

\* A character within the row: the cell under the cursor, and the cursor.
LEMMA PutCharInRow ==
  ASSUME NEW t \in Screens, NEW c \in OutputChars, c # NewLine, t.column + 1 # Width
  PROVE  /\ PutChar(t, c).column = t.column + 1
         /\ PutChar(t, c).cells = Put(t, t.column, c).cells
<1>1. PutChar(t, c) = [Put(t, t.column, c) EXCEPT !.column = @ + 1]
  BY DEF PutChar
<1>2. Put(t, t.column, c) \in Screens /\ Put(t, t.column, c).column = t.column
  BY PutStores DEF Screens, OutputChars, Glyphs
<1> QED
  BY <1>1, <1>2 DEF Screens

LEMMA Least ==
  ASSUME NEW T \in SUBSET Nat, T # {}
  PROVE  \E n \in T : \A k \in T : n <= k
<1> DEFINE R == OpToRel(<, Nat)
<1>1. IsWellFoundedOn(R, Nat)
  BY NatLessThanWellFounded
<1>2. \E x \in T : \A y \in T : <<y, x>> \notin R
  <2> HIDE DEF R
  <2> QED
    BY <1>1, WFMin
<1>3. \A x \in T, y \in T : <<y, x>> \notin R => x <= y
  BY DEF OpToRel
<1> QED
  BY <1>2, <1>3

\* f is the terminal after 0, 1, ... n characters of text.
Written(f, t, text, n) ==
    f = [k \in 0..n |-> IF k = 0 THEN t ELSE PutChar(f[k - 1], text[k])]

\* There is such an f for each n: else for a least one, and it is one longer.
LEMMA WrittenExists ==
  ASSUME NEW t, NEW text, NEW n \in Nat
  PROVE  \E f : Written(f, t, text, n)
<1> DEFINE Bad == {m \in Nat : ~\E f : Written(f, t, text, m)}
<1>1. SUFFICES Bad = {}
  OBVIOUS
<1> SUFFICES ASSUME Bad # {} PROVE FALSE
  OBVIOUS
<1>2. PICK m \in Bad : \A l \in Bad : m <= l
  <2>1. Bad \in SUBSET Nat
    OBVIOUS
  <2> HIDE DEF Bad
  <2> QED
    BY <2>1, Least
<1>3. m \in Nat /\ ~\E f : Written(f, t, text, m)
  OBVIOUS
<1>4. m # 0
  <2> DEFINE f == [k \in 0..0 |-> t]
  <2>1. f = [k \in 0..0 |-> IF k = 0 THEN t ELSE PutChar(f[k - 1], text[k])]
    OBVIOUS
  <2>2. Written(f, t, text, 0)
    BY <2>1 DEF Written
  <2> QED
    BY <1>3, <2>2
<1>5. m - 1 \in Nat /\ m - 1 \notin Bad
  BY <1>2, <1>3, <1>4
<1>6. PICK f : Written(f, t, text, m - 1)
  BY <1>5
<1> DEFINE g == [k \in 0..m |-> IF k < m THEN f[k] ELSE PutChar(f[m - 1], text[m])]
           h == [k \in 0..m |-> IF k = 0 THEN t ELSE PutChar(g[k - 1], text[k])]
<1>7. ASSUME NEW k \in 0..m PROVE g[k] = h[k]
  <2>1. CASE k = m
    BY <2>1, <1>3, <1>4
  <2>2. CASE k < m
    <3>1. k \in 0..(m - 1)
      BY <2>2, <1>3
    <3>2. f[k] = IF k = 0 THEN t ELSE PutChar(f[k - 1], text[k])
      BY <3>1, <1>6 DEF Written
    <3>3. k # 0 => k - 1 \in 0..m /\ k - 1 < m
      BY <3>1, <1>3
    <3> QED
      BY <2>2, <3>2, <3>3
  <2> QED
    BY <2>1, <2>2, <1>3
<1>8. g = h
  BY <1>7
<1>9. Written(g, t, text, m)
  <2> HIDE DEF g
  <2> QED
    BY <1>8 DEF Written
<1> QED
  BY <1>3, <1>9

LEMMA WriteRecursion ==
  ASSUME NEW t, NEW text, Len(text) \in Nat
  PROVE  \E f : /\ Write(t, text) = f[Len(text)]
                /\ f[0] = t
                /\ \A k \in 1..Len(text) : f[k] = PutChar(f[k - 1], text[k])
<1> DEFINE Step(f) == [k \in 0..Len(text) |->
                          IF k = 0 THEN t ELSE PutChar(f[k - 1], text[k])]
           after == CHOOSE f : f = Step(f)
<1>1. after = Step(after)
  <2>1. PICK f : Written(f, t, text, Len(text))
    BY WrittenExists
  <2>2. f = Step(f)
    BY <2>1, Zenon DEF Written
  <2> HIDE DEF Step
  <2> QED
    BY <2>2
<1>2. Write(t, text) = after[Len(text)]
  BY DEF Write
<1> HIDE DEF after
<1>3. after[0] = t
  BY <1>1
<1>4. ASSUME NEW k \in 1..Len(text) PROVE after[k] = PutChar(after[k - 1], text[k])
  <2>1. k \in 0..Len(text) /\ k # 0
    OBVIOUS
  <2> QED
    BY <1>1, <2>1
<1> QED
  BY <1>2, <1>3, <1>4

\* terminal_write keeps the cursor on the screen, however long the text.
LEMMA WriteRuns ==
  ASSUME NEW t \in Screens, NEW text, Len(text) \in Nat,
         \A k \in 1..Len(text) : text[k] \in OutputChars
  PROVE  \E f : /\ Write(t, text) = f[Len(text)]
                /\ \A k \in 0..Len(text) : f[k] \in Screens
                /\ \A k \in 1..Len(text) : f[k] = PutChar(f[k - 1], text[k])
<1>1. PICK f : /\ Write(t, text) = f[Len(text)]
               /\ f[0] = t
               /\ \A k \in 1..Len(text) : f[k] = PutChar(f[k - 1], text[k])
  BY WriteRecursion
<1> DEFINE Bad == {k \in 0..Len(text) : f[k] \notin Screens}
<1>2. Bad = {}
  <2> SUFFICES ASSUME Bad # {} PROVE FALSE
    OBVIOUS
  <2>1. PICK k \in Bad : \A l \in Bad : k <= l
    <3>1. Bad \in SUBSET Nat
      OBVIOUS
    <3> HIDE DEF Bad
    <3> QED
      BY <3>1, Least
  <2>2. k \in 1..Len(text) /\ k - 1 \in 0..Len(text) /\ k - 1 \notin Bad
    BY <1>1, <2>1
  <2>3. f[k - 1] \in Screens /\ f[k] = PutChar(f[k - 1], text[k])
    BY <1>1, <2>2
  <2> QED
    BY <2>2, <2>3, PutCharTyped
<1> QED
  BY <1>1, <1>2

LEMMA WriteTyped ==
  ASSUME NEW t \in Screens, NEW text, Len(text) \in Nat,
         \A k \in 1..Len(text) : text[k] \in OutputChars
  PROVE  Write(t, text) \in Screens
<1>1. Len(text) \in 0..Len(text)
  OBVIOUS
<1> QED
  BY <1>1, WriteRuns

\* A text that ends a line leaves the cursor in the first column.
LEMMA WriteEndsLine ==
  ASSUME NEW t \in Screens, NEW text, Len(text) \in Nat \ {0},
         \A k \in 1..Len(text) : text[k] \in OutputChars,
         text[Len(text)] = NewLine
  PROVE  Write(t, text) \in Screens /\ Write(t, text).column = 0
<1>1. PICK f : /\ Write(t, text) = f[Len(text)]
               /\ \A k \in 0..Len(text) : f[k] \in Screens
               /\ \A k \in 1..Len(text) : f[k] = PutChar(f[k - 1], text[k])
  BY WriteRuns
<1>2. Len(text) \in 1..Len(text) /\ Len(text) - 1 \in 0..Len(text)
  OBVIOUS
<1>3. f[Len(text) - 1] \in Screens /\ Write(t, text) = PutChar(f[Len(text) - 1], NewLine)
  BY <1>1, <1>2
<1>4. Write(t, text) = AdvanceRow(f[Len(text) - 1])
  BY <1>3 DEF PutChar
<1> QED
  BY <1>3, <1>4, AdvanceRowStores

LEMMA WriteOne ==
  ASSUME NEW t, NEW c
  PROVE  Write(t, <<c>>) = PutChar(t, c)
<1>1. Len(<<c>>) = 1 /\ <<c>>[1] = c
  OBVIOUS
<1> QED
  BY <1>1, WriteRecursion

LEMMA WriteTwo ==
  ASSUME NEW t, NEW c, NEW d
  PROVE  Write(t, <<c, d>>) = PutChar(PutChar(t, c), d)
<1>1. PICK text : text = <<c, d>>
  OBVIOUS
<1> Len(text) \in Nat
  BY <1>1
<1>2. Len(text) = 2 /\ text[1] = c /\ text[2] = d
  BY <1>1
<1>3. PICK f : /\ Write(t, text) = f[Len(text)]
               /\ f[0] = t
               /\ \A k \in 1..Len(text) : f[k] = PutChar(f[k - 1], text[k])
  BY WriteRecursion
<1>4. f[1] = PutChar(t, c) /\ f[2] = PutChar(f[1], d)
  BY <1>2, <1>3
<1>5. Write(t, text) = PutChar(PutChar(t, c), d)
  BY <1>2, <1>3, <1>4
<1> QED
  BY <1>1, <1>5

LEMMA RepeatIs ==
  ASSUME NEW c, NEW n \in Nat
  PROVE  /\ Len(Repeat(c, n)) = n
         /\ \A k \in 1..n : Repeat(c, n)[k] = c
<1>1. Repeat(c, n) \in Seq({c})
  BY DEF Repeat
<1> QED
  BY <1>1 DEF Repeat

\* The prompt, from the first column on: the cursor is after it, and no cell
\* beyond it has changed.
LEMMA WritePrompt ==
  ASSUME NEW t \in Screens, t.column = 0, NEW n \in Nat, n < Width
  PROVE  LET p == Write(t, Repeat(PromptChar, n))
         IN  /\ p.column = n
             /\ \A x \in Columns : x >= n => p.cells[x] = t.cells[x]
<1> DEFINE text == Repeat(PromptChar, n)
<1>1. Len(text) = n /\ \A k \in 1..n : text[k] = PromptChar
  BY RepeatIs
<1> HIDE DEF text
<1>2. PICK f : /\ Write(t, text) = f[n]
               /\ f[0] = t
               /\ \A k \in 1..n : f[k] = PutChar(f[k - 1], PromptChar)
  BY <1>1, WriteRecursion
<1> DEFINE Good(k) == /\ f[k] \in Screens /\ f[k].column = k
                      /\ \A x \in Columns : x >= k => f[k].cells[x] = t.cells[x]
           Bad == {k \in 0..n : ~Good(k)}
<1>3. Bad = {}
  <2> SUFFICES ASSUME Bad # {} PROVE FALSE
    OBVIOUS
  <2>1. PICK k \in Bad : \A l \in Bad : k <= l
    <3>1. Bad \in SUBSET Nat
      OBVIOUS
    <3> HIDE DEF Bad
    <3> QED
      BY <3>1, Least
  <2>2. k \in 0..n /\ ~Good(k)
    OBVIOUS
  <2>3. k # 0
    BY <1>2, <2>2
  <2>4. k \in 1..n /\ k - 1 \in 0..n /\ k - 1 \notin Bad
    BY <2>1, <2>2, <2>3
  <2>5. Good(k - 1)
    BY <2>4
  <2>6. f[k] = PutChar(f[k - 1], PromptChar)
    BY <1>2, <2>4
  <2>7. PICK s \in Screens : s = f[k - 1]
    BY <2>5
  <2>8. s.column = k - 1 /\ s.column + 1 # Width /\ k - 1 \in Columns
    BY <2>4, <2>5, <2>7, Sizes DEF Columns
  <2>9. PromptChar \in OutputChars /\ PromptChar \in Glyphs /\ PromptChar # NewLine
    BY DEF OutputChars, Glyphs, PromptChar, NewLine
  <2>10. /\ PutChar(s, PromptChar) \in Screens
         /\ PutChar(s, PromptChar).column = k - 1 + 1
         /\ PutChar(s, PromptChar).cells = Put(s, k - 1, PromptChar).cells
    BY <2>8, <2>9, PutCharTyped, PutCharInRow
  <2>11. \A x \in Columns : x # k - 1 => Put(s, k - 1, PromptChar).cells[x] = s.cells[x]
    BY <2>8, <2>9, PutStores
  <2>12. \A x \in Columns : x >= k => x # k - 1 /\ x >= k - 1
    BY <2>4, Sizes DEF Columns
  <2>13. Good(k)
    BY <2>4, <2>5, <2>6, <2>7, <2>10, <2>11, <2>12
  <2> QED
    BY <2>2, <2>13
<1>4. Good(n)
  BY <1>3
<1> QED
  BY <1>2, <1>4 DEF text

-----------------------------------------------------------------------------
(* What stands in the row of the cursor.                                   *)

\* A whole prompt stands at the beginning of the row.
Shown(t) == \A x \in 0..(PromptLen - 1) : t.cells[x] = PromptChar

LEMMA StaleShowsNothing ==
  ASSUME NEW t, t.cells = AllStale
  PROVE  ~Shown(t)
<1>1. 0 \in 0..(PromptLen - 1) /\ 0 \in Columns
  BY Sizes, Corner
<1>2. t.cells[0] = Stale
  BY <1>1 DEF AllStale
<1> QED
  BY <1>1, <1>2 DEF Shown, Stale, PromptChar

\* What is put into a cell never completes a prompt, only destroys one.
LEMMA PutShown ==
  ASSUME NEW t \in Screens, NEW x \in Columns, NEW c \in Glyphs, c # PromptChar,
         Shown(Put(t, x, c))
  PROVE  x >= PromptLen /\ Shown(t)
<1>1. Put(t, x, c).cells[x] # PromptChar
  BY PutStores DEF Stale, PromptChar
<1>2. x >= PromptLen
  <2> SUFFICES ASSUME x \in 0..(PromptLen - 1) PROVE FALSE
    BY Sizes DEF Columns
  <2> QED
    BY <1>1 DEF Shown
<1>3. ASSUME NEW y \in 0..(PromptLen - 1) PROVE t.cells[y] = PromptChar
  <2>1. y \in Columns /\ y # x
    BY <1>2, Sizes DEF Columns
  <2>2. Put(t, x, c).cells[y] = t.cells[y]
    BY <2>1, PutStores
  <2> QED
    BY <2>2 DEF Shown
<1> QED
  BY <1>2, <1>3 DEF Shown

LEMMA TypedIsChar ==
  ASSUME NEW k \in Keys
  PROVE  Typed(k) \in Chars
BY DEF Typed, Chars

LEMMA TextIs ==
  ASSUME NEW c, NEW bytes \in Seq({Printed, NewLine})
  PROVE  LET text == <<c>> \o bytes
         IN  /\ Len(text) \in Nat /\ 1 <= Len(text) /\ text[1] = c
             /\ Len(text) = 1 + Len(bytes)
             /\ \A k \in 2..Len(text) : text[k] \in {Printed, NewLine}
<1>1. PICK n \in Nat : n = Len(bytes) /\ \A k \in 1..n : bytes[k] \in {Printed, NewLine}
  OBVIOUS
<1>2. PICK text : text = <<c>> \o bytes
  OBVIOUS
<1>3. bytes \in Seq({c, Printed, NewLine}) /\ <<c>> \in Seq({c, Printed, NewLine})
  OBVIOUS
<1>4. Len(text) = 1 + n /\ text[1] = c /\ \A k \in 1..n : text[k + 1] = bytes[k]
  BY <1>1, <1>2, <1>3
<1>5. ASSUME NEW k \in 2..Len(text) PROVE text[k] \in {Printed, NewLine}
  <2>1. k - 1 \in 1..n /\ (k - 1) + 1 = k
    BY <1>1, <1>4
  <2> QED
    BY <1>1, <1>4, <2>1
<1> QED
  BY <1>1, <1>2, <1>4, <1>5

LEMMA EchoTyped ==
  ASSUME NEW t \in Screens, NEW c \in Chars, NEW bytes \in Seq({Printed, NewLine})
  PROVE  Write(t, <<c>> \o bytes) \in Screens
<1>1. PICK text : text = <<c>> \o bytes
  OBVIOUS
<1>2. /\ Len(text) \in Nat /\ text[1] = c
      /\ \A k \in 2..Len(text) : text[k] \in {Printed, NewLine}
  BY <1>1, TextIs
<1>3. ASSUME NEW k \in 1..Len(text) PROVE text[k] \in OutputChars
  <2>1. k = 1 \/ k \in 2..Len(text)
    BY <1>2
  <2> QED
    BY <1>2, <2>1 DEF OutputChars
<1> QED
  BY <1>1, <1>2, <1>3, WriteTyped

\* A character after which a prompt is shown was put into the row of that
\* prompt, behind it.
LEMMA PutCharShown ==
  ASSUME NEW t \in Screens, NEW c \in OutputChars, c # PromptChar,
         Shown(PutChar(t, c))
  PROVE  /\ Shown(t) /\ t.column + 1 # Width /\ t.column >= PromptLen
         /\ PutChar(t, c).column = t.column + 1
         /\ PutChar(t, c).cells = Put(t, t.column, c).cells
<1>1. t.column \in Columns
  BY DEF Screens
<1>2. c # NewLine
  <2> SUFFICES ASSUME c = NewLine PROVE FALSE
    OBVIOUS
  <2>1. PutChar(t, c) = AdvanceRow(t)
    BY DEF PutChar
  <2>2. CASE t.row + 1 = Height
    <3>1. 0 \in 0..(PromptLen - 1) /\ 0 \in Columns
      BY Sizes, Corner
    <3>2. PutChar(t, c).cells[0] = Space
      BY <2>1, <2>2, <3>1 DEF AdvanceRow, Cleared
    <3> QED
      BY <3>1, <3>2 DEF Shown, Space, PromptChar
  <2>3. CASE t.row + 1 # Height
    <3>1. PutChar(t, c).cells = AllStale
      BY <2>1, <2>3 DEF AdvanceRow
    <3> QED
      BY <3>1, StaleShowsNothing
  <2> QED
    BY <2>2, <2>3
<1>3. t.column + 1 # Width
  <2> SUFFICES ASSUME t.column + 1 = Width PROVE FALSE
    OBVIOUS
  <2>1. PutChar(t, c).cells = AllStale
    BY <1>2 DEF PutChar
  <2> QED
    BY <2>1, StaleShowsNothing
<1>4. /\ PutChar(t, c).column = t.column + 1
      /\ PutChar(t, c).cells = Put(t, t.column, c).cells
  BY <1>2, <1>3, PutCharInRow
<1>5. Shown(Put(t, t.column, c))
  BY <1>4 DEF Shown
<1>6. c \in Glyphs
  BY <1>2 DEF OutputChars, Glyphs
<1> QED
  BY <1>1, <1>3, <1>4, <1>5, <1>6, PutShown

\* An echo after which a prompt is shown has kept to the row, whatever it
\* printed: the character stands where the cursor was, what stood before it
\* still does, and all cells up to the cursor are known.
LEMMA EchoShown ==
  ASSUME NEW t \in Screens, NEW c \in Chars, NEW bytes \in Seq({Printed, NewLine}),
         NEW e, e = Write(t, <<c>> \o bytes), Shown(e),
         Shown(t) => \A x \in 0..(t.column - 1) : t.cells[x] # Stale
  PROVE  /\ Shown(t) /\ t.column >= PromptLen
         /\ e.column = t.column + 1 + Len(bytes)
         /\ e.cells[t.column] = c
         /\ \A x \in 0..(t.column - 1) : e.cells[x] = t.cells[x]
         /\ \A x \in 0..(e.column - 1) : e.cells[x] # Stale
<1>1. PICK text, n : text = <<c>> \o bytes /\ n = Len(text)
  OBVIOUS
<1>2. /\ n \in Nat /\ 1 <= n /\ text[1] = c /\ n = 1 + Len(bytes)
      /\ \A k \in 2..n : text[k] \in {Printed, NewLine}
  BY <1>1, TextIs
<1>3. /\ c \in OutputChars /\ c \in Glyphs /\ c # PromptChar /\ c # Stale
      /\ \A d \in {Printed, NewLine} : /\ d \in OutputChars /\ d # PromptChar
                                        /\ d # Stale
  BY Marks DEF OutputChars, Glyphs, Printed, NewLine, PromptChar, Stale
<1>4. ASSUME NEW k \in 1..n
      PROVE  text[k] \in OutputChars /\ text[k] # PromptChar /\ text[k] # Stale
  <2>1. k = 1 \/ k \in 2..n
    BY <1>2
  <2> QED
    BY <1>2, <1>3, <2>1
<1>5. PICK f : /\ e = f[n] /\ f[0] = t
               /\ \A k \in 1..n : f[k] = PutChar(f[k - 1], text[k])
  <2>1. e = Write(t, text)
    BY <1>1
  <2>2. Len(text) \in Nat
    BY <1>1, <1>2
  <2>3. PICK f : /\ Write(t, text) = f[Len(text)] /\ f[0] = t
                 /\ \A k \in 1..Len(text) : f[k] = PutChar(f[k - 1], text[k])
    BY <2>2, WriteRecursion
  <2> QED
    BY <1>1, <2>1, <2>3
<1> DEFINE Good(k) ==
             /\ f[k] \in Screens
             /\ Shown(f[k]) =>
                  /\ Shown(t) /\ f[k].column = t.column + k
                  /\ \A x \in 0..(t.column - 1) : f[k].cells[x] = t.cells[x]
                  /\ k > 0 => f[k].cells[t.column] = c /\ t.column >= PromptLen
                  /\ \A x \in 0..(f[k].column - 1) : f[k].cells[x] # Stale
           Bad == {k \in 0..n : ~Good(k)}
<1>6. t.column \in Columns /\ t.column \in Nat
  BY Sizes DEF Screens, Columns
<1>7. Good(0)
  BY <1>5, <1>6
<1>8. ASSUME NEW k \in 1..n, Good(k - 1) PROVE Good(k)
  <2>1. PICK s \in Screens, d \in OutputChars :
          /\ s = f[k - 1] /\ d = text[k] /\ f[k] = PutChar(s, d)
          /\ d # PromptChar /\ d # Stale
    <3>1. f[k - 1] \in Screens
      BY <1>8
    <3> QED
      BY <3>1, <1>4, <1>5
  <2>2. f[k] \in Screens
    BY <2>1, PutCharTyped
  <2> SUFFICES ASSUME Shown(f[k])
               PROVE  /\ Shown(t) /\ f[k].column = t.column + k
                      /\ \A x \in 0..(t.column - 1) : f[k].cells[x] = t.cells[x]
                      /\ f[k].cells[t.column] = c /\ t.column >= PromptLen
                      /\ \A x \in 0..(f[k].column - 1) : f[k].cells[x] # Stale
    BY <2>2
  <2>3. /\ Shown(s) /\ s.column + 1 # Width /\ s.column >= PromptLen
        /\ f[k].column = s.column + 1
        /\ f[k].cells = Put(s, s.column, d).cells
    BY <2>1, PutCharShown
  <2>4. /\ Shown(t) /\ s.column = t.column + (k - 1)
        /\ \A x \in 0..(t.column - 1) : s.cells[x] = t.cells[x]
        /\ k - 1 > 0 => s.cells[t.column] = c /\ t.column >= PromptLen
        /\ \A x \in 0..(s.column - 1) : s.cells[x] # Stale
    BY <1>8, <2>1, <2>3
  <2>5. PICK y \in Columns : y = s.column /\ y \in Nat /\ y # 0 /\ y - 1 \in 0..(y - 1)
    BY <2>3, Sizes DEF Screens, Columns
  <2>6. s.cells[y - 1] # Stale
    BY <2>4, <2>5
  <2>7. d \in Glyphs
    <3>1. d # NewLine
      <4> SUFFICES ASSUME d = NewLine PROVE FALSE
        OBVIOUS
      <4>1. f[k] = AdvanceRow(s)
        BY <2>1 DEF PutChar
      <4>2. f[k].column = 0
        BY <4>1, AdvanceRowStores
      <4> QED
        BY <4>2, <2>3, <2>5
    <3> QED
      BY <3>1, <2>1 DEF OutputChars, Glyphs
  <2>8. Put(s, y, d).cells[y] = d
    BY <2>5, <2>6, <2>7, PutStores
  <2>9. \A x \in Columns : x # y => Put(s, y, d).cells[x] = s.cells[x]
    BY <2>7, PutStores
  <2>10. f[k].cells[y] = d /\ \A x \in 0..(y - 1) : f[k].cells[x] = s.cells[x]
    <3>1. \A x \in 0..(y - 1) : x \in Columns /\ x # y
      BY <2>5, Sizes DEF Columns
    <3> QED
      BY <2>3, <2>5, <2>8, <2>9, <3>1
  <2>11. y = t.column + (k - 1) /\ k - 1 \in Nat
    BY <2>4, <2>5
  <2>12. f[k].column = t.column + k
    BY <2>3, <2>5, <2>11, <1>6
  <2>13. \A x \in 0..(t.column - 1) : f[k].cells[x] = t.cells[x]
    <3>1. \A x \in 0..(t.column - 1) : x \in 0..(y - 1)
      BY <2>11, <1>6
    <3> QED
      BY <3>1, <2>4, <2>10
  <2>14. f[k].cells[t.column] = c /\ t.column >= PromptLen
    <3>1. CASE k = 1
      <4>1. d = c /\ y = t.column
        BY <3>1, <2>1, <2>11, <1>2, <1>6
      <4> QED
        BY <4>1, <2>3, <2>5, <2>10
    <3>2. CASE k # 1
      <4>1. k - 1 > 0 /\ t.column \in 0..(y - 1)
        BY <3>2, <2>11, <1>6
      <4> QED
        BY <4>1, <2>4, <2>10
    <3> QED
      BY <3>1, <3>2
  <2>15. ASSUME NEW x \in 0..(f[k].column - 1) PROVE f[k].cells[x] # Stale
    <3>1. x = y \/ x \in 0..(y - 1)
      BY <2>3, <2>5
    <3>2. CASE x = y
      BY <3>2, <2>1, <2>10
    <3>3. CASE x \in 0..(y - 1)
      BY <3>3, <2>4, <2>5, <2>10
    <3> QED
      BY <3>1, <3>2, <3>3
  <2> QED
    BY <2>4, <2>12, <2>13, <2>14, <2>15
<1>9. Bad = {}
  <2> SUFFICES ASSUME Bad # {} PROVE FALSE
    OBVIOUS
  <2>1. PICK k \in Bad : \A l \in Bad : k <= l
    <3>1. Bad \in SUBSET Nat
      OBVIOUS
    <3> HIDE DEF Bad
    <3> QED
      BY <3>1, Least
  <2>2. k \in 0..n /\ ~Good(k)
    OBVIOUS
  <2> HIDE DEF Good
  <2>3. k # 0
    BY <1>7, <2>2
  <2>4. k \in 1..n /\ k - 1 \in 0..n /\ k - 1 \notin Bad
    BY <1>2, <2>1, <2>2, <2>3
  <2>5. Good(k - 1)
    BY <2>4
  <2> QED
    BY <2>2, <2>4, <2>5, <1>8
<1>10. Good(n) /\ n > 0
  BY <1>2, <1>9
<1>11. /\ Shown(t) /\ e.column = t.column + n
       /\ \A x \in 0..(t.column - 1) : e.cells[x] = t.cells[x]
       /\ e.cells[t.column] = c /\ t.column >= PromptLen
       /\ \A x \in 0..(e.column - 1) : e.cells[x] # Stale
  BY <1>5, <1>10
<1>12. e.column = t.column + 1 + Len(bytes)
  <2>1. PICK m \in Nat : m = Len(bytes)
    OBVIOUS
  <2> QED
    BY <1>2, <1>6, <1>11, <2>1
<1> QED
  BY <1>11, <1>12

-----------------------------------------------------------------------------
(* Every step keeps the invariant.                                         *)

LEMMA TerminalTyped ==
  /\ TypeOK => terminal \in Screens
  /\ TypeOK' => terminal' \in Screens
BY DEF TypeOK, Screens, Glyphs

LEMMA InitKeeps == Init => ConsoleIInv
<1> SUFFICES ASSUME Init PROVE ConsoleIInv
  OBVIOUS
<1>1. PromptLen - 1 \in Nat /\ PromptLen - 1 < Width /\ PromptLen - 1 \in Columns
  BY Sizes DEF Columns
<1>2. Cleared.column = 0 /\ Cleared.cells = [x \in Columns |-> Space]
  BY DEF Cleared
<1>3. /\ Len(Repeat(PromptChar, PromptLen - 1)) = PromptLen - 1
      /\ \A k \in 1..(PromptLen - 1) : Repeat(PromptChar, PromptLen - 1)[k] = PromptChar
  BY <1>1, RepeatIs
<1>4. terminal \in Screens
  <2>1. terminal = Write(Cleared, Repeat(PromptChar, PromptLen - 1))
    BY DEF Init
  <2> QED
    BY <1>1, <1>3, <2>1, ClearedTyped, WriteTyped DEF OutputChars
<1>5. terminal.cells[PromptLen - 1] = Space
  BY <1>1, <1>2, ClearedTyped, WritePrompt DEF Init
<1>6. ~PromptShown
  <2>1. PromptLen - 1 \in 0..(PromptLen - 1)
    BY <1>1
  <2> QED
    BY <1>5, <2>1 DEF PromptShown, Space, PromptChar
<1>7. TypeOK
  <2>1. terminal \in [row : Rows, column : Columns,
                     cells : [Columns -> Chars \cup {PromptChar, Printed, Space, Stale}]]
    BY <1>4 DEF Screens, Glyphs
  <2>2. cmd_buffer \in [0..(MaxLen - 1) -> Chars \cup {NUL}]
    BY DEF Init
  <2>3. cmd_pos \in 0..(MaxLen - 1)
    BY Sizes DEF Init
  <2>4. writer \in [at : {"idle", "put", "fill", "wrap", "newline", "clear", "cleared", "home"},
                   value : Rows \cup Columns]
    BY Corner DEF Init, Idle, At
  <2>5. {shift, caps, unechoed, strayed} \subseteq BOOLEAN /\ stage = "start"
    BY DEF Init
  <2> QED
    BY <2>1, <2>2, <2>3, <2>4, <2>5 DEF TypeOK
<1>8. WriterTyped /\ LineTyped
  BY DEF WriterTyped, LineTyped, Init, Idle, At
<1> QED
  BY <1>6, <1>7, <1>8 DEF ConsoleIInv, EchoMatches, RowKept

\* The line, when the row shows it.
LEMMA LineStands ==
  ASSUME ConsoleIInv, Shown(terminal), ~unechoed
  PROVE  /\ \E at \in [0..(cmd_pos - 1) -> PromptLen..(terminal.column - 1)] : StandsAt(at)
         /\ ~strayed => terminal.column = PromptLen + cmd_pos
BY DEF ConsoleIInv, EchoMatches, PromptShown, Shown

LEMMA CharKeeps ==
  ASSUME ConsoleIInv, NEW k \in Keys, Char(k)
  PROVE  ConsoleIInv'
<1>1. CASE ~(cmd_pos < MaxLen - 1)
  BY <1>1 DEF Char, ConsoleIInv, TypeOK, WriterTyped, LineTyped, RowKept, EchoMatches,
              StandsAt, PromptShown
<1>2. CASE cmd_pos < MaxLen - 1
  <2>1. PICK c \in Chars : c = Typed(k)
    BY TypedIsChar
  <2>2. /\ cmd_buffer' = [cmd_buffer EXCEPT ![cmd_pos] = c]
        /\ cmd_pos' = cmd_pos + 1
        /\ Echo(c)
        /\ UNCHANGED <<shift, caps, stage, writer>>
    BY <1>2, <2>1 DEF Char
  <2>3. terminal \in Screens
    BY TerminalTyped DEF ConsoleIInv
  <2>4. /\ cmd_buffer \in [0..(MaxLen - 1) -> Chars \cup {NUL}]
        /\ cmd_pos \in 0..(MaxLen - 1) /\ cmd_pos' \in 0..(MaxLen - 1) /\ cmd_pos \in Nat
    BY <1>2, <2>2, Sizes DEF ConsoleIInv, TypeOK
  <2>5. terminal' \in Screens /\ {unechoed, strayed}' \subseteq BOOLEAN
    <3>1. CASE ~Open
      BY <2>2, <2>3, <3>1 DEF Echo, ConsoleIInv, TypeOK
    <3>2. CASE Open
      <4>1. PICK bytes \in Strays :
              /\ terminal' = Write(terminal, <<c>> \o bytes)
              /\ strayed' = (strayed \/ bytes # <<>>) /\ unechoed' = unechoed
        BY <2>2, <3>2 DEF Echo
      <4>2. terminal' \in Screens
        BY <2>3, <4>1, EchoTyped, ConsoleAssumption
      <4> QED
        BY <4>1, <4>2 DEF ConsoleIInv, TypeOK
    <3> QED
      BY <3>1, <3>2
  <2>6. TypeOK'
    <3>1. terminal' \in [row : Rows, column : Columns,
                     cells : [Columns -> Chars \cup {PromptChar, Printed, Space, Stale}]]
      BY <2>5 DEF Screens, Glyphs
    <3>2. cmd_buffer' \in [0..(MaxLen - 1) -> Chars \cup {NUL}]
      BY <2>2, <2>4
    <3>3. {shift, caps, unechoed, strayed}' \subseteq BOOLEAN
      BY <2>2, <2>5 DEF ConsoleIInv, TypeOK
    <3> QED
      BY <2>2, <2>4, <3>1, <3>2, <3>3 DEF ConsoleIInv, TypeOK
  <2>7. WriterTyped'
    BY <2>2 DEF ConsoleIInv, WriterTyped
  <2>8. /\ \A i \in 0..(cmd_pos' - 1) : i \in 0..(cmd_pos - 1) \/ i = cmd_pos
        /\ \A i \in 0..(cmd_pos - 1) : cmd_buffer'[i] = cmd_buffer[i]
        /\ cmd_buffer'[cmd_pos] = c
        /\ cmd_pos' = cmd_pos + 1
    BY <2>2, <2>4
  <2>9. LineTyped'
    BY <2>8 DEF ConsoleIInv, LineTyped
  <2>10. CASE ~Open
    <3>1. RowKept'
      BY <2>2, <2>10 DEF ConsoleIInv, RowKept, Echo, PromptShown
    <3>2. EchoMatches'
      BY <2>2, <2>10 DEF EchoMatches, Echo
    <3> QED
      BY <2>6, <2>7, <2>9, <3>1, <3>2 DEF ConsoleIInv
  <2>11. CASE Open
    <3>1. PICK bytes \in Strays :
            /\ terminal' = Write(terminal, <<c>> \o bytes)
            /\ strayed' = (strayed \/ bytes # <<>>) /\ unechoed' = unechoed
      BY <2>2, <2>11 DEF Echo
    <3>2. bytes \in Seq({Printed, NewLine})
      BY ConsoleAssumption
    <3>3. Shown(terminal) => \A x \in 0..(terminal.column - 1) : terminal.cells[x] # Stale
      BY DEF ConsoleIInv, RowKept, PromptShown, Shown
    <3>4. ASSUME Shown(terminal')
          PROVE  /\ Shown(terminal) /\ terminal.column >= PromptLen
                 /\ terminal'.column = terminal.column + 1 + Len(bytes)
                 /\ terminal'.cells[terminal.column] = c
                 /\ \A x \in 0..(terminal.column - 1) :
                       terminal'.cells[x] = terminal.cells[x]
                 /\ \A x \in 0..(terminal'.column - 1) : terminal'.cells[x] # Stale
      BY <2>3, <3>1, <3>2, <3>3, <3>4, EchoShown
    <3>5. RowKept'
      BY <3>4 DEF RowKept, PromptShown, Shown
    <3>6. EchoMatches'
      <4> SUFFICES ASSUME Shown(terminal'), ~unechoed'
                   PROVE  /\ \E at \in [0..(cmd_pos' - 1)
                                        -> PromptLen..(terminal'.column - 1)] : StandsAt(at)'
                          /\ ~strayed' => terminal'.column = PromptLen + cmd_pos'
        BY DEF EchoMatches, PromptShown, Shown
      <4>1. PICK column \in Nat, next \in Nat :
              /\ column = terminal.column /\ next = terminal'.column
              /\ column >= PromptLen /\ next >= column + 1
              /\ next = column + 1 + Len(bytes)
        <5>1. terminal.column \in Nat /\ terminal'.column \in Nat /\ Len(bytes) \in Nat
          BY <2>3, <2>5, <3>2, Sizes DEF Screens, Columns
        <5> QED
          BY <3>4, <5>1
      <4>2. /\ \E at \in [0..(cmd_pos - 1) -> PromptLen..(column - 1)] : StandsAt(at)
            /\ ~strayed => column = PromptLen + cmd_pos
        BY <3>1, <3>4, <4>1, LineStands
      <4>3. PICK at \in [0..(cmd_pos - 1) -> PromptLen..(column - 1)] : StandsAt(at)
        BY <4>2
      <4>4. PICK on : on = [i \in 0..cmd_pos |-> IF i = cmd_pos THEN column ELSE at[i]]
        OBVIOUS
      <4>5. /\ on[cmd_pos] = column
            /\ \A i \in 0..(cmd_pos - 1) : /\ on[i] = at[i] /\ at[i] \in Nat
                                           /\ at[i] \in PromptLen..(column - 1)
                                           /\ at[i] < column
        <5>1. on[cmd_pos] = column
          BY <2>4, <4>4
        <5>2. \A i \in 0..(cmd_pos - 1) : i \in 0..cmd_pos /\ i # cmd_pos
          BY <2>4
        <5>3. \A i \in 0..(cmd_pos - 1) : on[i] = at[i]
          BY <4>4, <5>2
        <5>4. \A i \in 0..(cmd_pos - 1) : at[i] \in PromptLen..(column - 1)
          BY <4>3
        <5>5. \A y \in PromptLen..(column - 1) : y \in Nat /\ y < column
          BY <4>1, Sizes
        <5> QED
          BY <5>1, <5>3, <5>4, <5>5
      <4>6. on \in [0..(cmd_pos' - 1) -> PromptLen..(next - 1)]
        <5>1. ASSUME NEW i \in 0..cmd_pos
              PROVE  (IF i = cmd_pos THEN column ELSE at[i]) \in PromptLen..(next - 1)
          <6>1. CASE i = cmd_pos
            BY <4>1, <6>1, Sizes
          <6>2. CASE i # cmd_pos
            <7>1. at[i] \in PromptLen..(column - 1)
              BY <2>4, <4>5, <6>2
            <7> QED
              BY <4>1, <6>2, <7>1, Sizes
          <6> QED
            BY <6>1, <6>2
        <5>2. 0..cmd_pos = 0..(cmd_pos' - 1)
          BY <2>4, <2>8
        <5> QED
          BY <4>4, <5>1, <5>2
      <4>7. ASSUME NEW i \in 0..(cmd_pos' - 1), NEW j \in 0..(cmd_pos' - 1), i < j
            PROVE  on[i] < on[j]
        <5>1. i \in 0..(cmd_pos - 1)
          BY <2>4, <2>8, <4>7
        <5>2. CASE j = cmd_pos
          BY <4>5, <5>1, <5>2
        <5>3. CASE j \in 0..(cmd_pos - 1)
          <6>1. at[i] < at[j]
            BY <4>3, <4>7, <5>1, <5>3 DEF StandsAt
          <6> QED
            BY <4>5, <5>1, <5>3, <6>1
        <5> QED
          BY <2>8, <5>2, <5>3
      <4>8. ASSUME NEW i \in 0..(cmd_pos' - 1)
            PROVE  terminal'.cells[on[i]] = cmd_buffer'[i]
        <5>1. CASE i = cmd_pos
          BY <2>8, <3>4, <4>1, <4>5, <5>1
        <5>2. CASE i \in 0..(cmd_pos - 1)
          <6>1. PICK x \in 0..(column - 1) : x = at[i] /\ on[i] = x
            BY <4>1, <4>5, <5>2, Sizes
          <6>2. terminal.cells[x] = cmd_buffer[i]
            BY <4>3, <5>2, <6>1 DEF StandsAt
          <6> QED
            BY <2>8, <3>4, <4>1, <5>2, <6>1, <6>2
        <5> QED
          BY <2>8, <5>1, <5>2
      <4>9. StandsAt(on)'
        BY <4>7, <4>8 DEF StandsAt
      <4>10. ASSUME ~strayed' PROVE next = PromptLen + cmd_pos'
        <5>1. ~strayed /\ bytes = <<>>
          BY <3>1, <4>10
        <5>2. Len(bytes) = 0
          BY <5>1
        <5> QED
          BY <2>4, <2>8, <4>1, <4>2, <5>1, <5>2, Sizes
      <4> QED
        BY <4>1, <4>6, <4>9, <4>10
    <3> QED
      BY <2>6, <2>7, <2>9, <3>5, <3>6 DEF ConsoleIInv
  <2> QED
    BY <2>10, <2>11
<1> QED
  BY <1>1, <1>2

LEMMA BackspaceKeeps ==
  ASSUME ConsoleIInv, Backspace
  PROVE  ConsoleIInv'
<1>1. CASE ~(cmd_pos > 0)
  BY <1>1 DEF Backspace, ConsoleIInv, TypeOK, WriterTyped, LineTyped, RowKept,
              EchoMatches, StandsAt, PromptShown
<1>2. CASE cmd_pos > 0
  <2>1. /\ cmd_pos' = cmd_pos - 1 /\ terminal' = EraseCell(terminal)
        /\ UNCHANGED <<cmd_buffer, shift, caps, stage, writer, unechoed, strayed>>
    BY <1>2 DEF Backspace
  <2>2. terminal \in Screens /\ cmd_pos \in 1..(MaxLen - 1)
    BY <1>2, TerminalTyped DEF ConsoleIInv, TypeOK
  <2>3. CASE terminal.column <= PromptLen
    <3>1. terminal' = terminal
      BY <2>1, <2>3 DEF EraseCell
    <3>2. ~(PromptShown /\ ~unechoed)
      <4> SUFFICES ASSUME PromptShown, ~unechoed PROVE FALSE
        OBVIOUS
      <4>1. PICK at \in [0..(cmd_pos - 1) -> PromptLen..(terminal.column - 1)] : TRUE
        BY DEF ConsoleIInv, EchoMatches
      <4>2. at[0] \in PromptLen..(terminal.column - 1)
        BY <2>2, <4>1
      <4>3. terminal.column \in Nat
        BY <2>2, Sizes DEF Screens, Columns
      <4> QED
        BY <2>3, <4>2, <4>3, Sizes
    <3>3. cmd_pos - 1 \in 0..(MaxLen - 1) /\ 0..(cmd_pos - 1 - 1) \subseteq 0..(cmd_pos - 1)
      BY <2>2, Sizes
    <3> QED
      BY <2>1, <3>1, <3>2, <3>3
         DEF ConsoleIInv, TypeOK, WriterTyped, LineTyped, RowKept, EchoMatches, PromptShown
  <2>4. CASE terminal.column > PromptLen
    <3>1. PICK x \in Columns : x = terminal.column - 1 /\ x \in Nat
      BY <2>2, <2>4, Sizes DEF Screens, Columns
    <3>2. PICK p : p = Put(terminal, x, Space)
      OBVIOUS
    <3>3. Space \in Glyphs /\ Space # PromptChar
      BY DEF Glyphs, Space, PromptChar
    <3>4. p \in Screens /\ p.column = terminal.column
      BY <2>2, <3>2, <3>3, PutStores
    <3>5. terminal' = [p EXCEPT !.column = @ - 1]
      BY <2>1, <2>2, <2>4, <3>1, <3>2, Sizes DEF EraseCell, BackOver, Screens, Columns
    <3>6. /\ terminal' \in Screens /\ terminal'.column = x /\ terminal'.cells = p.cells
      BY <3>1, <3>4, <3>5 DEF Screens
    <3>7. TypeOK'
      <4>1. terminal' \in [row : Rows, column : Columns,
                       cells : [Columns -> Chars \cup {PromptChar, Printed, Space, Stale}]]
        BY <3>6 DEF Screens, Glyphs
      <4>2. cmd_pos - 1 \in 0..(MaxLen - 1)
        BY <2>2, Sizes
      <4> QED
        BY <2>1, <4>1, <4>2 DEF ConsoleIInv, TypeOK
    <3>8. WriterTyped' /\ LineTyped'
      BY <2>1, <2>2 DEF ConsoleIInv, WriterTyped, LineTyped
    <3>9. \A y \in Columns : y # x => terminal'.cells[y] = terminal.cells[y]
      BY <2>2, <3>2, <3>3, <3>6, PutStores
    <3>10. ASSUME Shown(terminal') PROVE Shown(terminal)
      <4>1. Shown(p)
        BY <3>6, <3>10 DEF Shown
      <4> QED
        BY <2>2, <3>2, <3>3, <4>1, PutShown
    <3>11. PICK column \in Nat : column = terminal.column /\ column = x + 1
      BY <2>2, <3>1, Sizes DEF Screens, Columns
    <3>12. RowKept'
      <4> SUFFICES ASSUME Shown(terminal'), NEW y \in 0..(x - 1)
                   PROVE  terminal'.cells[y] # Stale
        BY <3>6 DEF RowKept, PromptShown, Shown
      <4>1. y \in Columns /\ y # x /\ y \in 0..(column - 1)
        BY <3>1, <3>11, Sizes DEF Columns
      <4>2. terminal.cells[y] # Stale
        BY <3>10, <3>11, <4>1 DEF ConsoleIInv, RowKept, PromptShown, Shown
      <4> QED
        BY <3>9, <4>1, <4>2
    <3>13. EchoMatches'
      <4> SUFFICES ASSUME Shown(terminal'), ~unechoed'
                   PROVE  /\ \E at \in [0..(cmd_pos' - 1)
                                        -> PromptLen..(terminal'.column - 1)] : StandsAt(at)'
                          /\ ~strayed' => terminal'.column = PromptLen + cmd_pos'
        BY DEF EchoMatches, PromptShown, Shown
      <4>1. /\ \E at \in [0..(cmd_pos - 1) -> PromptLen..(column - 1)] : StandsAt(at)
            /\ ~strayed => column = PromptLen + cmd_pos
        BY <2>1, <3>10, <3>11, LineStands
      <4>2. PICK at \in [0..(cmd_pos - 1) -> PromptLen..(column - 1)] : StandsAt(at)
        BY <4>1
      <4>3. PICK n \in Nat : n = cmd_pos' /\ cmd_pos = n + 1 /\ n \in 0..(cmd_pos - 1)
                            /\ \A i \in 0..(n - 1) : i \in 0..(cmd_pos - 1) /\ i < n
        BY <2>1, <2>2
      <4>4. at[n] \in PromptLen..(column - 1) /\ at[n] <= x
        <5>1. at[n] \in PromptLen..(column - 1)
          BY <4>2, <4>3
        <5>2. \A y \in PromptLen..(column - 1) : y <= x
          BY <3>1, <3>11, Sizes
        <5> QED
          BY <5>1, <5>2
      <4>5. \A i \in 0..(n - 1) : at[i] \in PromptLen..(column - 1) /\ at[i] < at[n]
        BY <4>2, <4>3 DEF StandsAt
      <4>6. \A i \in 0..(n - 1) : at[i] \in PromptLen..(x - 1)
        <5>1. \A y, z \in PromptLen..(column - 1) :
                y < z /\ z <= x => y \in PromptLen..(x - 1)
          BY <3>1, <3>11, Sizes
        <5> QED
          BY <4>4, <4>5, <5>1
      <4>7. PICK on : on = [i \in 0..(n - 1) |-> at[i]]
        OBVIOUS
      <4>8. on \in [0..(n - 1) -> PromptLen..(x - 1)]
        BY <4>6, <4>7
      <4>9. ASSUME NEW i \in 0..(n - 1), NEW j \in 0..(n - 1), i < j PROVE on[i] < on[j]
        <5>1. at[i] < at[j]
          BY <4>2, <4>3, <4>9 DEF StandsAt
        <5> QED
          BY <4>7, <5>1
      <4>10. ASSUME NEW i \in 0..(n - 1) PROVE terminal'.cells[on[i]] = cmd_buffer'[i]
        <5>1. PICK y \in Columns : y = at[i] /\ y # x /\ on[i] = y
          <6>1. at[i] \in PromptLen..(x - 1)
            BY <4>6
          <6> QED
            BY <3>1, <4>7, <6>1, Sizes DEF Columns
        <5>2. terminal.cells[y] = cmd_buffer[i]
          BY <4>2, <4>3, <5>1 DEF StandsAt
        <5> QED
          BY <2>1, <3>9, <5>1, <5>2
      <4>11. StandsAt(on)'
        BY <4>3, <4>9, <4>10 DEF StandsAt
      <4>12. ~strayed' => x = PromptLen + n
        BY <2>1, <3>1, <3>11, <4>1, <4>3, Sizes
      <4> QED
        BY <3>6, <4>3, <4>8, <4>11, <4>12
    <3> QED
      BY <3>7, <3>8, <3>12, <3>13 DEF ConsoleIInv
  <2>5. terminal.column \in Nat
    BY <2>2, Sizes DEF Screens, Columns
  <2> QED
    BY <2>3, <2>4, <2>5, Sizes
<1>3. cmd_pos \in Nat
  BY DEF ConsoleIInv, TypeOK
<1> QED
  BY <1>1, <1>2, <1>3

\* All that a command leaves of the row before the prompt: the cursor stands
\* in the first column.
LEMMA OutputEndsLine ==
  ASSUME NEW s \in Screens, s.column = 0, NEW name, NEW t \in Output(s, name)
  PROVE  t \in Screens /\ t.column = 0
<1>1. PutChar(s, Printed) \in Screens
  BY PutCharTyped DEF OutputChars
<1>2. PutChar(PutChar(s, Printed), NewLine) = AdvanceRow(PutChar(s, Printed))
  BY DEF PutChar
<1>3. /\ Write(s, <<Printed, NewLine>>) \in Screens
      /\ Write(s, <<Printed, NewLine>>).column = 0
  BY <1>1, <1>2, WriteTwo, AdvanceRowStores
<1>4. Cleared \in Screens /\ Cleared.column = 0
  BY ClearedTyped DEF Cleared
<1>5. CASE name = <<>>
  BY <1>5 DEF Output
<1>6. CASE name # <<>>
  BY <1>3, <1>4, <1>6 DEF Output
<1> QED
  BY <1>5, <1>6

LEMMA SplitTyped ==
  ASSUME NEW b \in [0..(MaxLen - 1) -> Chars \cup {NUL}]
  PROVE  Split(b) \in [0..(MaxLen - 1) -> Chars \cup {NUL}]
BY DEF Split

LEMMA EnterKeeps ==
  ASSUME ConsoleIInv, Enter
  PROVE  ConsoleIInv'
<1> DEFINE runs == stage # "start" /\ cmd_pos > 0
           lines == IF Open THEN 2 ELSE 1
           new_line == Write(terminal, Repeat(NewLine, lines))
           command == IF runs THEN CommandIn(Terminated) ELSE NoCommand
<1>1. /\ cmd_buffer' = IF runs THEN Split(Terminated) ELSE Terminated
      /\ \E t \in Output(new_line, command.name) :
             terminal' = Write(t, Repeat(PromptChar, PromptLen))
      /\ cmd_pos' = 0
      /\ unechoed' = FALSE /\ strayed' = FALSE
      /\ UNCHANGED <<shift, caps, stage, writer>>
  BY DEF Enter
<1>2. new_line \in Screens /\ new_line.column = 0
  <2>1. PICK text : text = Repeat(NewLine, lines)
    OBVIOUS
  <2>2. /\ Len(text) \in Nat \ {0}
        /\ \A k \in 1..Len(text) : text[k] = NewLine
    BY <2>1, RepeatIs
  <2>3. text[Len(text)] = NewLine
    BY <2>2
  <2>4. terminal \in Screens /\ NewLine \in OutputChars
    BY TerminalTyped DEF ConsoleIInv, OutputChars
  <2>5. Write(terminal, text) \in Screens /\ Write(terminal, text).column = 0
    BY <2>2, <2>3, <2>4, WriteEndsLine
  <2> QED
    BY <2>1, <2>5
<1>3. /\ terminal' \in Screens /\ terminal'.column = PromptLen
  <2> HIDE DEF new_line, command
  <2>1. PICK t \in Output(new_line, command.name) :
             terminal' = Write(t, Repeat(PromptChar, PromptLen))
    BY <1>1
  <2>2. t \in Screens /\ t.column = 0
    BY <1>2, OutputEndsLine
  <2>3. PICK text : text = Repeat(PromptChar, PromptLen)
    OBVIOUS
  <2>4. Len(text) \in Nat /\ \A k \in 1..Len(text) : text[k] \in OutputChars
    BY <2>3, RepeatIs, Sizes DEF OutputChars
  <2>5. Write(t, text) \in Screens
    BY <2>2, <2>4, WriteTyped
  <2>6. PromptLen < Width /\ PromptLen \in Nat
    BY Sizes
  <2>7. Write(t, Repeat(PromptChar, PromptLen)).column = PromptLen
    BY <2>2, <2>6, WritePrompt
  <2> QED
    BY <2>1, <2>3, <2>5, <2>7
<1>4. cmd_buffer' \in [0..(MaxLen - 1) -> Chars \cup {NUL}]
  <2>1. Terminated \in [0..(MaxLen - 1) -> Chars \cup {NUL}]
    BY DEF Terminated, ConsoleIInv, TypeOK
  <2> QED
    BY <1>1, <2>1, SplitTyped
<1> HIDE DEF runs, lines, new_line, command
<1>5. TypeOK'
  <2>1. terminal' \in [row : Rows, column : Columns,
                   cells : [Columns -> Chars \cup {PromptChar, Printed, Space, Stale}]]
    BY <1>3 DEF Screens, Glyphs
  <2>2. cmd_pos' \in 0..(MaxLen - 1)
    BY <1>1, Sizes
  <2>3. {shift, caps, unechoed, strayed}' \subseteq BOOLEAN
    BY <1>1 DEF ConsoleIInv, TypeOK
  <2> QED
    BY <1>1, <1>4, <2>1, <2>2, <2>3 DEF ConsoleIInv, TypeOK
<1>6. WriterTyped' /\ LineTyped'
  BY <1>1 DEF ConsoleIInv, WriterTyped, LineTyped
<1>7. EchoMatches'
  <2>1. PICK at : at = [i \in 0..(cmd_pos' - 1) |-> 0]
    OBVIOUS
  <2>2. 0..(cmd_pos' - 1) = {}
    BY <1>1
  <2>3. /\ at \in [0..(cmd_pos' - 1) -> PromptLen..(terminal'.column - 1)]
        /\ StandsAt(at)'
    BY <2>1, <2>2 DEF StandsAt
  <2>4. terminal'.column = PromptLen + cmd_pos'
    BY <1>1, <1>3, Sizes
  <2> QED
    BY <2>3, <2>4 DEF EchoMatches
<1>8. RowKept'
  <2> SUFFICES ASSUME PromptShown', NEW x \in 0..(PromptLen - 1)
               PROVE  terminal'.cells[x] # Stale
    BY <1>3 DEF RowKept
  <2> QED
    BY DEF PromptShown, PromptChar, Stale
<1> QED
  BY <1>5, <1>6, <1>7, <1>8 DEF ConsoleIInv

\* A modifier key, a stage of the boot, a step that stores nothing.
LEMMA OtherKeeps ==
  ASSUME ConsoleIInv,
         \/ Shift \/ CapsLock \/ SetDirectory \/ OpenStdio \/ StartClock
         \/ UNCHANGED vars
  PROVE  ConsoleIInv'
<1>1. /\ UNCHANGED <<terminal, cmd_buffer, cmd_pos, writer, unechoed, strayed>>
      /\ shift' \in BOOLEAN /\ caps' \in BOOLEAN
      /\ stage' \in {"start", "dir", "open", "running"}
  BY DEF ConsoleIInv, TypeOK, Shift, CapsLock, SetDirectory, OpenStdio, StartClock,
         Becomes, line_vars, vars
<1> QED
  BY <1>1 DEF ConsoleIInv, TypeOK, WriterTyped, LineTyped, RowKept, EchoMatches, StandsAt,
              PromptShown

\* Whoever writes to the terminal behind the keyboard handler's back leaves
\* the row Stale, which shows no prompt.
LEMMA StaleKeeps ==
  ASSUME ConsoleIInv, terminal' \in Screens, terminal'.cells = AllStale,
         UNCHANGED <<cmd_buffer, cmd_pos, shift, caps, stage, unechoed, strayed>>,
         writer' \in [at : {"idle", "put", "fill", "wrap", "newline", "clear", "cleared",
                            "home"},
                      value : Rows \cup Columns],
         WriterTyped'
  PROVE  ConsoleIInv'
<1>1. ~PromptShown'
  BY StaleShowsNothing DEF PromptShown, Shown
<1>2. terminal' \in [row : Rows, column : Columns,
                 cells : [Columns -> Chars \cup {PromptChar, Printed, Space, Stale}]]
  BY DEF Screens, Glyphs
<1>3. TypeOK'
  BY <1>2 DEF ConsoleIInv, TypeOK
<1>4. LineTyped'
  BY DEF ConsoleIInv, LineTyped
<1> QED
  BY <1>1, <1>3, <1>4 DEF ConsoleIInv, RowKept, EchoMatches

LEMMA ProcessKeeps ==
  ASSUME ConsoleIInv, SyscallExit \/ Paint
  PROVE  ConsoleIInv'
<1>1. terminal \in Screens
  BY TerminalTyped DEF ConsoleIInv
<1>2. Write(terminal, Repeat(Printed, ExitLen)) \in Screens
  <2>1. PICK text : text = Repeat(Printed, ExitLen)
    OBVIOUS
  <2>2. Len(text) \in Nat /\ \A k \in 1..Len(text) : text[k] \in OutputChars
    BY <2>1, RepeatIs, Sizes DEF OutputChars
  <2> QED
    BY <1>1, <2>1, <2>2, WriteTyped
<1>3. terminal' \in Screens /\ terminal'.cells = AllStale
  BY <1>1, <1>2, ForgetStores DEF SyscallExit, Paint
<1>4. UNCHANGED <<cmd_buffer, cmd_pos, shift, caps, stage, unechoed, strayed, writer>>
  BY DEF SyscallExit, Paint, line_vars
<1> QED
  BY <1>3, <1>4, StaleKeeps DEF ConsoleIInv, TypeOK, WriterTyped

LEMMA StoresKeeps ==
  ASSUME ConsoleIInv, NEW row \in Rows, NEW column \in Columns,
         NEW at \in {"idle", "put", "fill", "wrap", "newline", "clear", "cleared", "home"},
         NEW value \in Rows \cup Columns,
         at = "put" => value \in Columns,
         at \in {"fill", "wrap", "newline"} => value \in Rows,
         Stores(row, column, At(at, value))
  PROVE  ConsoleIInv'
<1>1. /\ terminal' = [row |-> row, column |-> column, cells |-> AllStale]
      /\ writer' = [at |-> at, value |-> value]
      /\ UNCHANGED <<cmd_buffer, cmd_pos, shift, caps, stage, unechoed, strayed>>
  BY DEF Stores, At, line_vars
<1>2. terminal' \in Screens /\ terminal'.cells = AllStale
  BY <1>1, AllStaleTyped DEF Screens
<1>3. WriterTyped'
  BY <1>1 DEF WriterTyped
<1> QED
  BY <1>1, <1>2, <1>3, StaleKeeps

\* Each store of the writer, of a value it has read before or computed.
LEMMA WriterKeeps ==
  ASSUME ConsoleIInv, Writer
  PROVE  ConsoleIInv'
<1>1. /\ terminal \in Screens /\ terminal.row \in Rows /\ terminal.column \in Columns
      /\ writer.value \in Rows \cup Columns /\ WriterTyped
  BY TerminalTyped DEF ConsoleIInv, TypeOK, Screens
<1>2. NextRow(terminal.row) \in Rows
  BY <1>1, NextRowInside
<1>3. CASE WriterReads
  <2>1. CASE Stores(terminal.row, terminal.column, At("newline", NextRow(terminal.row)))
    BY <1>1, <1>2, <2>1, StoresKeeps
  <2>2. CASE /\ terminal.column + 1 = Width
             /\ Stores(terminal.row, terminal.column, At("fill", NextRow(terminal.row)))
    BY <1>1, <1>2, <2>2, StoresKeeps
  <2>3. CASE /\ terminal.column + 1 # Width
             /\ Stores(terminal.row, terminal.column, At("put", terminal.column + 1))
    <3>1. terminal.column + 1 \in Columns
      BY <1>1, <2>3, Sizes DEF Columns
    <3> QED
      BY <1>1, <2>3, <3>1, StoresKeeps
  <2> QED
    BY <1>3, <2>1, <2>2, <2>3 DEF WriterReads
<1>4. CASE WriterStoresColumn
  <2>1. CASE writer.at = "put" /\ Stores(terminal.row, writer.value, Idle)
    BY <1>1, <2>1, Corner, StoresKeeps DEF WriterTyped, Idle
  <2>2. CASE writer.at = "fill" /\ Stores(terminal.row, 0, At("wrap", writer.value))
    BY <1>1, <2>2, Corner, StoresKeeps DEF WriterTyped
  <2> QED
    BY <1>4, <2>1, <2>2 DEF WriterStoresColumn
<1>5. CASE WriterWraps
  BY <1>1, <1>5, Corner, StoresKeeps DEF WriterWraps, WriterTyped, Idle
<1>6. CASE WriterAdvances
  <2>1. writer.value \in Rows
    BY <1>1, <1>6 DEF WriterAdvances, WriterTyped
  <2>2. CASE Stores(writer.value, terminal.column, At("clear", 0))
    BY <1>1, <2>1, <2>2, Corner, StoresKeeps
  <2>3. CASE Stores(writer.value, terminal.column, At("home", 0))
    BY <1>1, <2>1, <2>3, Corner, StoresKeeps
  <2> QED
    BY <1>6, <2>2, <2>3 DEF WriterAdvances
<1>7. CASE WriterClears
  <2>1. CASE Stores(terminal.row, 0, At("cleared", 0))
    BY <1>1, <2>1, Corner, StoresKeeps
  <2>2. CASE Stores(0, terminal.column, At("home", 0))
    BY <1>1, <2>2, Corner, StoresKeeps
  <2> QED
    BY <1>7, <2>1, <2>2 DEF WriterClears
<1>8. CASE WriterHome
  BY <1>1, <1>8, Corner, StoresKeeps DEF WriterHome, Idle
<1> QED
  BY <1>3, <1>4, <1>5, <1>6, <1>7, <1>8 DEF Writer

LEMMA NextKeeps == ConsoleIInv /\ [Next]_vars => ConsoleIInv'
BY CharKeeps, BackspaceKeeps, EnterKeeps, OtherKeeps, ProcessKeeps, WriterKeeps
   DEF Next, Keyboard

\* The conjunction of what handlers and writer rely on is never broken by a
\* step of either.
THEOREM ConsoleInvariance == Spec => []ConsoleIInv
BY InitKeeps, NextKeeps, PTL DEF Spec

\* terminal_row and terminal_column stay on the screen and cmd_pos within
\* cmd_buffer, though handlers come between any two stores of the writer.
THEOREM ConsoleTypeCorrect == Spec => []TypeOK
<1>1. ConsoleIInv => TypeOK
  BY DEF ConsoleIInv
<1> QED
  BY <1>1, ConsoleInvariance, PTL

\* The line that Enter would run stands after a whole prompt, in order,
\* whatever else ramfs_write has echoed there, and nothing else stands there
\* unless it has echoed more than the keys: the echo and the erasing of
\* handle_keyboard_interrupt keep step with cmd_buffer.
THEOREM ScreenShowsLine == Spec => []EchoMatches
<1>1. ConsoleIInv => EchoMatches
  BY DEF ConsoleIInv
<1> QED
  BY <1>1, ConsoleInvariance, PTL

-----------------------------------------------------------------------------
(* The keyboard handler is a line editor.                                  *)

Line == LineOf(cmd_buffer, 0, cmd_pos)

LEMMA LineOfIs ==
  ASSUME NEW b, NEW from \in Nat, NEW n \in Nat, from <= n, NEW S,
         \A j \in from..(n - 1) : b[j] \in S
  PROVE  /\ LineOf(b, from, n) \in Seq(S)
         /\ Len(LineOf(b, from, n)) = n - from
         /\ DOMAIN LineOf(b, from, n) = 1..(n - from)
         /\ \A j \in 1..(n - from) : LineOf(b, from, n)[j] = b[from + j - 1]
<1>1. PICK k \in Nat : k = n - from
  OBVIOUS
<1>2. PICK l : l = LineOf(b, from, n)
  OBVIOUS
<1>3. l = [j \in 1..k |-> b[from + j - 1]]
  BY <1>1, <1>2 DEF LineOf
<1>4. \A j \in 1..k : b[from + j - 1] \in S
  BY <1>1
<1>5. l \in [1..k -> S]
  BY <1>3, <1>4
<1>6. l \in Seq(S)
  BY <1>5, SeqDef
<1>7. Len(l) = k
  BY <1>5, <1>6
<1> QED
  BY <1>1, <1>2, <1>3, <1>6, <1>7

LEMMA LineIs ==
  ASSUME NEW b, NEW n \in Nat, \A j \in 0..(n - 1) : b[j] \in Chars
  PROVE  /\ LineOf(b, 0, n) \in Seq(Chars)
         /\ Len(LineOf(b, 0, n)) = n
         /\ DOMAIN LineOf(b, 0, n) = 1..n
         /\ \A j \in 1..n : LineOf(b, 0, n)[j] = b[j - 1]
<1>1. PICK from \in Nat : from = 0
  OBVIOUS
<1>2. from <= n /\ \A j \in from..(n - 1) : b[j] \in Chars
  BY <1>1
<1>3. PICK c : c = LineOf(b, from, n)
  OBVIOUS
<1>4. /\ LineOf(b, from, n) \in Seq(Chars)
      /\ Len(LineOf(b, from, n)) = n - from
      /\ DOMAIN LineOf(b, from, n) = 1..(n - from)
      /\ \A j \in 1..(n - from) : LineOf(b, from, n)[j] = b[from + j - 1]
  BY <1>2, LineOfIs, Zenon
<1>5. n - from = n /\ \A j \in 1..n : from + j - 1 = j - 1
  BY <1>1
<1>6. /\ c \in Seq(Chars) /\ Len(c) = n /\ DOMAIN c = 1..n
      /\ \A j \in 1..n : c[j] = b[from + j - 1]
  BY <1>3, <1>4, <1>5
<1>7. \A j \in 1..n : c[j] = b[j - 1]
  BY <1>5, <1>6
<1> QED
  BY <1>1, <1>3, <1>6, <1>7

LEMMA SubSeqIs ==
  ASSUME NEW S, NEW l \in Seq(S), NEW m \in Nat \ {0}, NEW n \in Nat,
         m <= n + 1, n <= Len(l)
  PROVE  SubSeq(l, m, n) = [j \in 1..(n - m + 1) |-> l[m + j - 1]]
<1>1. \A j \in m..n : l[j] \in S
  BY ElementOfSeq
<1>2. /\ SubSeq(l, m, n) \in Seq(S)
      /\ Len(SubSeq(l, m, n)) = n - m + 1
      /\ \A j \in 1..(n - m + 1) : SubSeq(l, m, n)[j] = l[m + j - 1]
  BY <1>1, SubSeqProperties
<1>3. PICK t : t = SubSeq(l, m, n)
  OBVIOUS
<1>4. t \in [1..(n - m + 1) -> S]
  BY <1>2, <1>3, LenProperties
<1> QED
  BY <1>2, <1>3, <1>4

LEMMA MinIs ==
  ASSUME NEW S \in SUBSET Int, NEW m \in S, \A k \in S : m <= k
  PROVE  Min(S) = m
<1>1. Min(S) \in S /\ \A k \in S : Min(S) <= k
  <2>1. \E x \in S : \A y \in S : x <= y
    OBVIOUS
  <2> QED
    BY <2>1, Zenon DEF Min
<1>2. PICK l \in S : l = Min(S)
  BY <1>1
<1>3. l <= m /\ m <= l /\ l \in Int /\ m \in Int
  BY <1>1, <1>2
<1> QED
  BY <1>2, <1>3

LEMMA StringEndIs ==
  ASSUME NEW b \in [0..(MaxLen - 1) -> Chars \cup {NUL}],
         NEW from \in Nat, NEW n \in 0..(MaxLen - 1), from <= n, b[n] = NUL,
         \A j \in from..(n - 1) : b[j] # NUL
  PROVE  StringEnd(b, from) = n
<1> DEFINE S == {j \in DOMAIN b : j >= from /\ b[j] = NUL}
<1>1. S \in SUBSET Int /\ n \in S
  BY Sizes
<1>2. ASSUME NEW k \in S PROVE n <= k
  <2>1. k \in Int /\ k >= from /\ k \notin from..(n - 1)
    BY Sizes
  <2> QED
    BY <2>1, Sizes
<1>3. Min(S) = n
  <2> HIDE DEF S
  <2> QED
    BY <1>1, <1>2, MinIs
<1> QED
  BY <1>3 DEF StringEnd

\* A set of positions has a first one.
LEMMA FirstOf ==
  ASSUME NEW S \in SUBSET Nat, S # {}
  PROVE  Min(S) \in S /\ \A k \in S : Min(S) <= k
<1>1. PICK m \in S : \A k \in S : m <= k
  BY Least
<1>2. Min(S) = m
  BY <1>1, MinIs
<1> QED
  BY <1>1, <1>2

\* handle_command splits the string in the buffer at its first space.
LEMMA CommandInIs ==
  ASSUME NEW b \in [0..(MaxLen - 1) -> Chars \cup {NUL}], NEW n \in 0..(MaxLen - 1),
         b[n] = NUL, \A j \in 0..(n - 1) : b[j] \in Chars
  PROVE  CommandIn(b) = Editor!CommandOf(LineOf(b, 0, n))
<1> DEFINE l == LineOf(b, 0, n)
           spaces == {j \in DOMAIN l : l[j] = Space}
<1>1. n \in Nat /\ 0 <= n
  BY Sizes
<1>2. /\ l \in Seq(Chars) /\ Len(l) = n /\ DOMAIN l = 1..n
      /\ \A j \in 1..n : l[j] = b[j - 1]
  BY <1>1, LineIs
<1>3. \A j \in 0..(n - 1) : b[j] # NUL
  BY Marks
<1>4. StringEnd(b, 0) = n
  BY <1>1, <1>3, StringEndIs
<1>5. SpacesOf(b) = {j \in 0..(n - 1) : b[j] = Space}
  BY <1>4 DEF SpacesOf
<1>6. CASE SpacesOf(b) = {}
  <2>1. spaces = {}
    <3> SUFFICES ASSUME NEW j \in 1..n, b[j - 1] = Space PROVE FALSE
      BY <1>2
    <3>1. j - 1 \in 0..(n - 1)
      BY <1>1
    <3> QED
      BY <1>5, <1>6, <3>1
  <2>2. Split(b) = b
    BY <1>6 DEF Split
  <2>3. CommandIn(b) = [name |-> l, args |-> <<>>]
    BY <1>4, <1>6, <2>2 DEF CommandIn
  <2> HIDE DEF l
  <2>4. Editor!CommandOf(l) = [name |-> l, args |-> <<>>]
    BY <2>1 DEF Editor!CommandOf
  <2> QED
    BY <2>3, <2>4 DEF l
<1>7. CASE SpacesOf(b) # {}
  <2>1. PICK m \in 0..(n - 1) : /\ m = Min(SpacesOf(b)) /\ b[m] = Space
                               /\ \A k \in SpacesOf(b) : m <= k
    <3>1. SpacesOf(b) \in SUBSET Nat
      BY <1>5
    <3> QED
      BY <1>5, <1>7, <3>1, FirstOf
  <2>2. /\ m \in Nat /\ m < n /\ m \in 0..(MaxLen - 1) /\ m + 1 \in Nat /\ m + 1 <= n
    BY <2>1, Sizes
  <2>3. Min(spaces) = m + 1 /\ spaces # {}
    <3>1. m + 1 \in spaces /\ spaces \in SUBSET Int
      BY <1>2, <2>1, <2>2
    <3>2. ASSUME NEW k \in spaces PROVE m + 1 <= k
      <4>1. k \in 1..n /\ b[k - 1] = Space
        BY <1>2
      <4>2. k - 1 \in SpacesOf(b)
        BY <1>1, <1>5, <4>1
      <4> QED
        BY <2>1, <2>2, <4>1, <4>2
    <3> HIDE DEF spaces
    <3> QED
      BY <3>1, <3>2, MinIs
  <2>4. PICK s : s = [b EXCEPT ![m] = NUL]
    OBVIOUS
  <2>5. /\ s \in [0..(MaxLen - 1) -> Chars \cup {NUL}] /\ s[m] = NUL
        /\ \A j \in 0..(MaxLen - 1) : j # m => s[j] = b[j]
    BY <2>2, <2>4
  <2>6. Split(b) = s
    BY <1>7, <2>1, <2>4 DEF Split
  <2>7. StringEnd(s, 0) = m
    <3>1. \A j \in 0..(m - 1) : j \in 0..(n - 1) /\ j \in 0..(MaxLen - 1) /\ j # m
      BY <2>2, Sizes
    <3>2. \A j \in 0..(m - 1) : s[j] # NUL
      BY <1>3, <2>5, <3>1
    <3>3. 0 \in Nat /\ 0 <= m
      BY <2>2
    <3> QED
      BY <2>2, <2>5, <3>2, <3>3, StringEndIs
  <2>8. StringEnd(s, m + 1) = n
    <3>1. \A j \in (m + 1)..(n - 1) : j \in 0..(n - 1) /\ j \in 0..(MaxLen - 1) /\ j # m
      BY <1>1, <2>2, Sizes
    <3>2. \A j \in (m + 1)..(n - 1) : s[j] # NUL
      BY <1>3, <2>5, <3>1
    <3>3. s[n] = NUL
      BY <2>2, <2>5
    <3> QED
      BY <2>2, <2>5, <3>2, <3>3, StringEndIs
  <2>9. CommandIn(b) = [name |-> LineOf(s, 0, m), args |-> <<LineOf(s, m + 1, n)>>]
    BY <1>7, <2>1, <2>6, <2>7, <2>8 DEF CommandIn
  <2>10. LineOf(s, 0, m) = SubSeq(l, 1, m + 1 - 1)
    <3>1. m - 0 = m /\ m + 1 - 1 = m
      BY <2>2
    <3>2. SubSeq(l, 1, m) = [j \in 1..m |-> l[j]]
      <4>1. m - 1 + 1 = m /\ \A j \in 1..m : 1 + j - 1 = j
        BY <2>2
      <4> HIDE DEF l
      <4>2. SubSeq(l, 1, m) = [j \in 1..(m - 1 + 1) |-> l[1 + j - 1]]
        BY <1>1, <1>2, <2>2, SubSeqIs
      <4> QED
        BY <4>1, <4>2
    <3>3. ASSUME NEW j \in 1..m PROVE s[0 + j - 1] = l[j]
      <4>1. /\ 0 + j - 1 = j - 1 /\ j \in 1..n /\ j - 1 \in 0..(MaxLen - 1) /\ j - 1 # m
        BY <2>2, Sizes
      <4> QED
        BY <1>2, <2>5, <4>1
    <3>4. LineOf(s, 0, m) = [j \in 1..m |-> s[0 + j - 1]]
      BY <3>1 DEF LineOf
    <3> HIDE DEF l
    <3> QED
      BY <3>1, <3>2, <3>3, <3>4
  <2>11. LineOf(s, m + 1, n) = SubSeq(l, m + 1 + 1, Len(l))
    <3>1. SubSeq(l, m + 2, n) = [j \in 1..(n - (m + 1)) |-> l[m + 1 + j]]
      <4>1. n - (m + 2) + 1 = n - (m + 1)
        BY <1>1, <2>2
      <4>2. \A j \in 1..(n - (m + 1)) : m + 2 + j - 1 = m + 1 + j
        BY <2>2
      <4> HIDE DEF l
      <4>3. SubSeq(l, m + 2, n) = [j \in 1..(n - (m + 2) + 1) |-> l[m + 2 + j - 1]]
        BY <1>1, <1>2, <2>2, SubSeqIs
      <4> QED
        BY <4>1, <4>2, <4>3
    <3>2. ASSUME NEW j \in 1..(n - (m + 1)) PROVE s[m + 1 + j - 1] = l[m + 1 + j]
      <4>1. /\ m + 1 + j - 1 \in 0..(MaxLen - 1) /\ m + 1 + j - 1 # m
            /\ m + 1 + j \in 1..n /\ m + 1 + j - 1 = (m + 1 + j) - 1
        BY <1>1, <2>2, Sizes
      <4> QED
        BY <1>2, <2>5, <4>1
    <3>3. LineOf(s, m + 1, n) = [j \in 1..(n - (m + 1)) |-> s[m + 1 + j - 1]]
      BY DEF LineOf
    <3>4. m + 1 + 1 = m + 2 /\ Len(l) = n
      BY <1>2, <2>2
    <3> HIDE DEF l
    <3> QED
      BY <3>1, <3>2, <3>3, <3>4
  <2>12. Editor!CommandOf(l) = [name |-> SubSeq(l, 1, m + 1 - 1),
                               args |-> <<SubSeq(l, m + 1 + 1, Len(l))>>]
    <3>1. Editor!Min(spaces) = Min(spaces)
      BY Zenon DEF Editor!Min, Min
    <3> HIDE DEF l
    <3>2. Editor!CommandOf(l) =
            IF spaces = {} THEN [name |-> l, args |-> <<>>]
            ELSE [name |-> SubSeq(l, 1, Editor!Min(spaces) - 1),
                  args |-> <<SubSeq(l, Editor!Min(spaces) + 1, Len(l))>>]
      BY Zenon DEF Editor!CommandOf
    <3> HIDE DEF spaces
    <3> QED
      BY <2>3, <3>1, <3>2
  <2> QED
    BY <2>9, <2>10, <2>11, <2>12
<1> QED
  BY <1>6, <1>7

LEMMA LineTypes ==
  ASSUME ConsoleIInv
  PROVE  /\ cmd_buffer \in [0..(MaxLen - 1) -> Chars \cup {NUL}]
         /\ cmd_pos \in Nat /\ cmd_pos <= MaxLen - 1 /\ cmd_pos \in 0..(MaxLen - 1)
         /\ \A j \in 0..(cmd_pos - 1) : cmd_buffer[j] \in Chars
         /\ Line \in Seq(Chars) /\ Len(Line) = cmd_pos /\ DOMAIN Line = 1..cmd_pos
         /\ \A j \in 1..cmd_pos : Line[j] = cmd_buffer[j - 1]
<1>1. /\ cmd_buffer \in [0..(MaxLen - 1) -> Chars \cup {NUL}]
      /\ cmd_pos \in Nat /\ cmd_pos <= MaxLen - 1 /\ cmd_pos \in 0..(MaxLen - 1)
      /\ \A j \in 0..(cmd_pos - 1) : cmd_buffer[j] \in Chars
  BY Sizes DEF ConsoleIInv, TypeOK, LineTyped
<1> QED
  BY <1>1, LineIs DEF Line

\* A key that prints is typed at the end of the line, a full line takes none.
LEMMA CharTypes ==
  ASSUME ConsoleIInv, ConsoleIInv', NEW k \in Keys, Char(k)
  PROVE  Editor!Type \/ Editor!OtherKey
<1>1. CASE ~(cmd_pos < MaxLen - 1)
  BY <1>1 DEF Char, Editor!OtherKey, NoCommand, Editor!NoCommand
<1>2. CASE cmd_pos < MaxLen - 1
  <2>1. PICK c \in Chars : c = Typed(k)
    BY TypedIsChar
  <2>2. /\ cmd_buffer' = [cmd_buffer EXCEPT ![cmd_pos] = c]
        /\ cmd_pos' = cmd_pos + 1
        /\ ran' = NoCommand /\ stage' = stage
    BY <1>2, <2>1 DEF Char
  <2>3. /\ cmd_pos \in Nat /\ Line \in Seq(Chars) /\ Len(Line) = cmd_pos
        /\ DOMAIN Line = 1..cmd_pos
        /\ \A j \in 1..cmd_pos : Line[j] = cmd_buffer[j - 1]
    BY LineTypes
  <2>4. /\ cmd_buffer' [cmd_pos] = c
        /\ \A j \in 0..(cmd_pos - 1) : cmd_buffer'[j] = cmd_buffer[j]
    BY <2>2, <2>3, LineTypes
  <2>5. PICK next : next = LineOf(cmd_buffer', 0, cmd_pos')
    OBVIOUS
  <2>6. \A j \in 0..(cmd_pos' - 1) : cmd_buffer'[j] \in Chars
    BY DEF ConsoleIInv, LineTyped
  <2>7. cmd_pos' \in Nat
    BY <2>2, <2>3
  <2>8. /\ next \in Seq(Chars) /\ Len(next) = cmd_pos + 1 /\ DOMAIN next = 1..(cmd_pos + 1)
        /\ \A j \in 1..(cmd_pos + 1) : next[j] = cmd_buffer'[j - 1]
    BY <2>2, <2>5, <2>6, <2>7, LineIs
  <2>9. /\ Append(Line, c) \in Seq(Chars) /\ Len(Append(Line, c)) = cmd_pos + 1
        /\ \A j \in 1..cmd_pos : Append(Line, c)[j] = Line[j]
        /\ Append(Line, c)[cmd_pos + 1] = c
    BY <2>3
  <2>10. ASSUME NEW j \in 1..(cmd_pos + 1) PROVE next[j] = Append(Line, c)[j]
    <3>1. CASE j = cmd_pos + 1
      <4>1. j - 1 = cmd_pos
        BY <2>3, <3>1
      <4> QED
        BY <2>4, <2>8, <2>9, <3>1, <4>1
    <3>2. CASE j # cmd_pos + 1
      <4>1. j \in 1..cmd_pos /\ j - 1 \in 0..(cmd_pos - 1)
        BY <2>3, <3>2
      <4> QED
        BY <2>3, <2>4, <2>8, <2>9, <4>1
    <3> QED
      BY <3>1, <3>2
  <2>11. next = Append(Line, c)
    <3>1. Len(next) = Len(Append(Line, c)) /\ \A j \in 1..Len(next) : next[j] = Append(Line, c)[j]
      BY <2>8, <2>9, <2>10
    <3> QED
      BY <2>8, <2>9, <3>1, SeqEqual
  <2>12. Len(Line) < MaxLen - 1
    BY <1>2, <2>3
  <2> QED
    BY <2>2, <2>5, <2>11, <2>12 DEF Editor!Type, Line, NoCommand, Editor!NoCommand
<1> QED
  BY <1>1, <1>2

\* Backspace takes the last key back, if there is one.
LEMMA BackspaceErases ==
  ASSUME ConsoleIInv, ConsoleIInv', Backspace
  PROVE  Editor!Erase \/ Editor!OtherKey
<1>1. CASE ~(cmd_pos > 0)
  BY <1>1 DEF Backspace, Editor!OtherKey, NoCommand, Editor!NoCommand
<1>2. CASE cmd_pos > 0
  <2>1. /\ cmd_pos' = cmd_pos - 1 /\ cmd_buffer' = cmd_buffer
        /\ ran' = NoCommand /\ stage' = stage
    BY <1>2 DEF Backspace
  <2>2. /\ cmd_pos \in Nat \ {0} /\ Line \in Seq(Chars) /\ Len(Line) = cmd_pos
        /\ DOMAIN Line = 1..cmd_pos
        /\ \A j \in 1..cmd_pos : Line[j] = cmd_buffer[j - 1]
    BY <1>2, LineTypes
  <2>3. PICK next : next = LineOf(cmd_buffer', 0, cmd_pos')
    OBVIOUS
  <2>4. /\ cmd_pos' \in Nat
        /\ \A j \in 0..(cmd_pos' - 1) : cmd_buffer'[j] \in Chars
    BY <2>1, <2>2 DEF ConsoleIInv, LineTyped
  <2>5. /\ next \in Seq(Chars) /\ Len(next) = cmd_pos - 1 /\ DOMAIN next = 1..(cmd_pos - 1)
        /\ \A j \in 1..(cmd_pos - 1) : next[j] = cmd_buffer[j - 1]
    BY <2>1, <2>3, <2>4, LineIs
  <2>6. PICK n \in Nat : n = cmd_pos - 1
    BY <2>2
  <2>7. SubSeq(Line, 1, n) = [j \in 1..n |-> Line[j]]
    <3>1. /\ 1 \in Nat \ {0} /\ 1 <= n + 1 /\ n <= Len(Line) /\ n - 1 + 1 = n
          /\ \A j \in 1..n : 1 + j - 1 = j
      BY <2>2, <2>6
    <3>2. SubSeq(Line, 1, n) = [j \in 1..(n - 1 + 1) |-> Line[1 + j - 1]]
      BY <2>2, <3>1, SubSeqIs
    <3> QED
      BY <3>1, <3>2
  <2>8. next = [j \in 1..n |-> Line[j]]
    <3>1. next = [j \in 1..n |-> next[j]]
      BY <2>5, <2>6, LenProperties
    <3>2. \A j \in 1..n : next[j] = Line[j]
      BY <2>2, <2>5, <2>6
    <3> QED
      BY <3>1, <3>2
  <2>9. Editor!Front(Line) = next
    BY <2>2, <2>6, <2>7, <2>8 DEF Editor!Front
  <2>10. Line # <<>>
    BY <2>2
  <2> QED
    BY <2>1, <2>3, <2>9, <2>10 DEF Editor!Erase, Line, NoCommand, Editor!NoCommand
<1>3. cmd_pos \in Nat
  BY LineTypes
<1> QED
  BY <1>1, <1>2, <1>3

\* Enter runs what is typed, or drops it.
LEMMA EnterSubmits ==
  ASSUME ConsoleIInv, Enter
  PROVE  Editor!Submit
<1> DEFINE ready == stage # "start"
           command == Editor!CommandOf(Line)
<1>1. PICK b : b = Terminated
  OBVIOUS
<1>2. /\ b \in [0..(MaxLen - 1) -> Chars \cup {NUL}] /\ b[cmd_pos] = NUL
      /\ \A j \in 0..(cmd_pos - 1) : b[j] = cmd_buffer[j]
      /\ \A j \in 0..(cmd_pos - 1) : b[j] \in Chars
  BY <1>1, LineTypes DEF Terminated
<1>3. LineOf(b, 0, cmd_pos) = Line
  <2>1. \A j \in 1..cmd_pos : b[0 + j - 1] = cmd_buffer[0 + j - 1]
    BY <1>2, LineTypes
  <2>2. cmd_pos - 0 = cmd_pos
    BY LineTypes
  <2> QED
    BY <2>1, <2>2 DEF LineOf, Line
<1>4. CommandIn(Terminated) = command
  BY <1>1, <1>2, <1>3, CommandInIs, LineTypes
<1>5. cmd_pos = 0 => command.name = <<>>
  <2>1. SUFFICES ASSUME cmd_pos = 0 PROVE command.name = <<>>
    OBVIOUS
  <2>2. PICK l : l = Line
    OBVIOUS
  <2>3. l = <<>> /\ DOMAIN l = {}
    BY <2>1, <2>2, LineTypes
  <2>4. Editor!CommandOf(l) = [name |-> l, args |-> <<>>]
    BY <2>3 DEF Editor!CommandOf
  <2> QED
    BY <2>2, <2>3, <2>4
<1> HIDE DEF command
<1>6. ran' = IF ready /\ cmd_pos > 0 /\ command.name # <<>> THEN command ELSE NoCommand
  BY <1>4 DEF Enter, NoCommand
<1>7. ran' = IF ready /\ command.name # <<>> THEN command ELSE NoCommand
  BY <1>5, <1>6, LineTypes
<1>8. LineOf(cmd_buffer', 0, cmd_pos') = <<>>
  <2>1. cmd_pos' = 0
    BY DEF Enter
  <2>2. LineOf(cmd_buffer', 0, cmd_pos') = [j \in 1..0 |-> cmd_buffer'[0 + j - 1]]
    BY <2>1 DEF LineOf
  <2> QED
    BY <2>2
<1>9. stage' = stage
  BY DEF Enter
<1> QED
  BY <1>7, <1>8, <1>9, Zenon DEF Editor!Submit, NoCommand, Editor!NoCommand, command, Line

\* Whatever is typed when, in whatever stage of the boot and with whatever
\* else writing to the screen, handle_keyboard_interrupt runs exactly the
\* lines a LineEditor would.
THEOREM ConsoleImplementsEditor == Spec => ImplementsLineEditor
<1>1. Init => Editor!Init
  <2> SUFFICES ASSUME Init PROVE Editor!Init
    OBVIOUS
  <2>1. LineOf(cmd_buffer, 0, cmd_pos) = [j \in 1..0 |-> cmd_buffer[0 + j - 1]]
    BY DEF LineOf, Init
  <2>2. LineOf(cmd_buffer, 0, cmd_pos) = <<>>
    BY <2>1
  <2> QED
    BY <2>2 DEF Init, Editor!Init, NoCommand, Editor!NoCommand
<1>2. ASSUME ConsoleIInv, ConsoleIInv', [Next]_vars
      PROVE  [Editor!Next]_<<LineOf(cmd_buffer, 0, cmd_pos), ran, stage # "start">>
  <2>1. ASSUME NEW k \in Keys, Char(k) PROVE Editor!Next
    BY <1>2, <2>1, CharTypes DEF Editor!Next
  <2>2. CASE Backspace
    BY <1>2, <2>2, BackspaceErases DEF Editor!Next
  <2>3. CASE Enter
    BY <1>2, <2>3, EnterSubmits DEF Editor!Next
  <2>4. CASE Shift \/ CapsLock
    BY <2>4 DEF Shift, CapsLock, Editor!Next, Editor!OtherKey, NoCommand, Editor!NoCommand
  <2>5. CASE SetDirectory
    BY <2>5 DEF SetDirectory, Becomes, line_vars, Editor!Next, Editor!BecomeReady
  <2>6. CASE OpenStdio \/ StartClock
    BY <2>6 DEF OpenStdio, StartClock, Becomes, line_vars
  <2>7. CASE SyscallExit \/ Paint
    BY <2>7 DEF SyscallExit, Paint, line_vars
  <2>8. CASE Writer
    BY <2>8 DEF Writer, WriterReads, WriterStoresColumn, WriterWraps, WriterAdvances,
                WriterClears, WriterHome, Stores, line_vars
  <2>9. CASE UNCHANGED vars
    BY <2>9 DEF vars
  <2> QED
    BY <1>2, <2>1, <2>2, <2>3, <2>4, <2>5, <2>6, <2>7, <2>8, <2>9 DEF Next, Keyboard
<1> QED
  BY <1>1, <1>2, ConsoleInvariance, PTL DEF Spec, ImplementsLineEditor, Editor!Spec
=============================================================================
