------------------------------- MODULE Console -------------------------------
(***************************************************************************)
(* The terminal and the keyboard handler of kernel/kernel.c.  The handler  *)
(* runs behind an interrupt gate, and so does syscall_exit: each is one    *)
(* step.  Code outside interrupts also writes to the terminal: kernel_main *)
(* during boot, then the process test_jump.  That writer goes one store    *)
(* at a time.  An interrupt finds terminal_row and terminal_column as the  *)
(* last store left them, and the writer goes on from the values it had     *)
(* read.  What the commands do to files and processes is in RamFS,         *)
(* ExitPath and Loader; here a command prints whole lines or clears the    *)
(* screen.  Of the screen only the row of the cursor is kept, and of that  *)
(* row what the keyboard handler has put there since it wrote the prompt:  *)
(* the rest is Stale.                                                      *)
(***************************************************************************)
EXTENDS Integers, Sequences, SequencesExt, FiniteSetsExt

CONSTANTS
    Width, Height,   \* VGA_WIDTH, VGA_HEIGHT
    PromptLen,       \* strlen("shompOS> ")
    MaxLen,          \* CMD_MAX_LEN
    ExitLen,         \* the characters syscall_exit prints
    Letters,         \* the keys for which keyboard_map has a letter
    Keys,            \* all keys that print
    ShiftMap,        \* keyboard_map_shift; a letter's is also its capital
    Strays           \* what may follow an echoed character on the stack

VARIABLES
    terminal,      \* terminal_row, terminal_column, the cells of that row
    cmd_buffer,    \* with what older lines have left in it
    cmd_pos,
    shift, caps,   \* two bits of special_key_state
    stage,         \* how far kernel_main has come
    writer,        \* the writer outside interrupts: its place and registers
    ran,           \* ghost: the command the last key ran
    unechoed,      \* ghost: the line has keys that were not echoed
    strayed        \* ghost: an echo since the last Enter printed more than its key

vars == <<terminal, cmd_buffer, cmd_pos, shift, caps, stage, writer, ran,
          unechoed, strayed>>
line_vars == <<cmd_buffer, cmd_pos, ran, unechoed, strayed>>

Space == " "
NUL == "NUL"
NewLine == "newline"
PromptChar == ">"
Printed == "x"
Stale == "?"

Columns == 0..(Width - 1)
Rows == 0..(Height - 1)
Chars == Keys \cup {ShiftMap[k] : k \in Keys}
Repeat(c, n) == [i \in 1..n |-> c]
AllStale == [x \in Columns |-> Stale]

\* No key types the NUL that ends a string or a newline, which Enter's own
\* step writes; a cell of the prompt and a Stale one are marked as such,
\* whatever character is seen there.  So is a stray byte.
ASSUME ConsoleAssumption ==
    /\ {Width, Height, PromptLen, MaxLen, ExitLen} \subseteq Nat \ {0}
    /\ PromptLen + MaxLen <= Width
    /\ Letters \subseteq Keys
    /\ Keys \subseteq DOMAIN ShiftMap
    /\ {NUL, NewLine, PromptChar, Stale} \cap Chars = {}
    /\ Strays \subseteq Seq({Printed, NewLine})

LineOf(buffer, from, end) == [i \in 1..(end - from) |-> buffer[from + i - 1]]

NoCommand == [name |-> <<>>, args |-> <<>>]

-----------------------------------------------------------------------------
(* The terminal.                                                           *)

Cleared == [row |-> 0, column |-> 0, cells |-> [x \in Columns |-> Space]]

\* Mutant: the last row is the one after the screen.
NextRowPastEnd(row) == IF row = Height THEN 0 ELSE row + 1

NextRow(row) == IF row + 1 = Height THEN 0 ELSE row + 1

\* A cell is kept only if the row begins with a prompt and the cell before it
\* is kept.
Put(t, x, c) ==
    LET kept == IF x = 0 THEN c = PromptChar ELSE t.cells[x - 1] # Stale
    IN  [t EXCEPT !.cells[x] = IF kept THEN c ELSE Stale]

\* Past the last row the screen is cleared ...
AdvanceRow(t) ==
    IF t.row + 1 = Height THEN Cleared
    ELSE [row |-> t.row + 1, column |-> 0, cells |-> AllStale]

\* ... unless it is a character that has filled the row.
PutChar(t, c) ==
    CASE c = NewLine -> AdvanceRow(t)
      [] c # NewLine /\ t.column + 1 = Width ->
            [row |-> NextRow(t.row), column |-> 0, cells |-> AllStale]
      [] OTHER -> [Put(t, t.column, c) EXCEPT !.column = @ + 1]

Write(t, text) ==
    LET after[n \in 0..Len(text)] ==
          IF n = 0 THEN t ELSE PutChar(after[n - 1], text[n])
    IN  after[Len(text)]

Forget(t) == [t EXCEPT !.cells = AllStale]

-----------------------------------------------------------------------------
(* The keyboard handler.                                                   *)

Open == stage \in {"open", "running"}

\* ramfs_write prints the string at &c, whatever its count: c and the bytes
\* after it on the stack up to a NUL.
Echo(c) ==
    IF ~Open THEN unechoed' = TRUE /\ UNCHANGED <<terminal, strayed>>
    ELSE \E bytes \in Strays :
           /\ terminal' = Write(terminal, <<c>> \o bytes)
           /\ strayed' = (strayed \/ bytes # <<>>)
           /\ UNCHANGED unechoed

Typed(k) ==
    IF IF k \in Letters THEN shift # caps ELSE shift THEN ShiftMap[k] ELSE k

\* A printing key; with a full buffer, nothing.
Char(k) ==
    /\ IF cmd_pos < MaxLen - 1
       THEN /\ cmd_buffer' = [cmd_buffer EXCEPT ![cmd_pos] = Typed(k)]
            /\ cmd_pos' = cmd_pos + 1
            /\ Echo(Typed(k))
       ELSE UNCHANGED <<cmd_buffer, cmd_pos, terminal, unechoed, strayed>>
    /\ ran' = NoCommand
    /\ UNCHANGED <<shift, caps, stage, writer>>

BackOver(t) == [Put(t, t.column - 1, Space) EXCEPT !.column = @ - 1]

\* Mutant: the first character after the prompt cannot be erased.
EraseLate(t) == IF t.column <= PromptLen + 1 THEN t ELSE BackOver(t)

\* The cursor goes back unless it stands in, or right after, a prompt.
EraseCell(t) == IF t.column <= PromptLen THEN t ELSE BackOver(t)

Backspace ==
    /\ IF cmd_pos > 0
       THEN cmd_pos' = cmd_pos - 1 /\ terminal' = EraseCell(terminal)
       ELSE UNCHANGED <<cmd_pos, terminal>>
    /\ ran' = NoCommand
    /\ UNCHANGED <<cmd_buffer, shift, caps, stage, writer, unechoed, strayed>>

\* handle_command reads the buffer as a string and ends its name at the first
\* space.
StringEnd(buffer, from) == Min({i \in DOMAIN buffer : i >= from /\ buffer[i] = NUL})

SpacesOf(buffer) == {i \in 0..(StringEnd(buffer, 0) - 1) : buffer[i] = Space}

Split(buffer) ==
    IF SpacesOf(buffer) = {} THEN buffer
    ELSE [buffer EXCEPT ![Min(SpacesOf(buffer))] = NUL]

CommandIn(buffer) ==
    LET split == Split(buffer)
        start == Min(SpacesOf(buffer)) + 1
    IN  [name |-> LineOf(split, 0, StringEnd(split, 0)),
         args |-> IF SpacesOf(buffer) = {} THEN <<>>
                  ELSE <<LineOf(split, start, StringEnd(split, start))>>]

\* Every command prints whole lines, one standing for all, or clears.
Output(t, name) ==
    IF name = <<>> THEN {t} ELSE {t, Write(t, <<Printed, NewLine>>), Cleared}

\* Mutant: Enter leaves the buffer as it is.
Unterminated == cmd_buffer

Terminated == [cmd_buffer EXCEPT ![cmd_pos] = NUL]

\* The newline is written through descriptor 1 and once more directly.
Enter ==
    LET runs == stage # "start" /\ cmd_pos > 0
        new_line == Write(terminal, Repeat(NewLine, IF Open THEN 2 ELSE 1))
        command == IF runs THEN CommandIn(Terminated) ELSE NoCommand
    IN  /\ cmd_buffer' = IF runs THEN Split(Terminated) ELSE Terminated
        /\ \E t \in Output(new_line, command.name) :
             terminal' = Write(t, Repeat(PromptChar, PromptLen))
        /\ ran' = IF command.name = <<>> THEN NoCommand ELSE command
        /\ cmd_pos' = 0
        /\ unechoed' = FALSE /\ strayed' = FALSE
        /\ UNCHANGED <<shift, caps, stage, writer>>

\* Alt and Ctrl change bits nobody reads.  Letting go of one shift key is
\* letting go of both.
Shift ==
    /\ \E down \in BOOLEAN : shift' = down
    /\ ran' = NoCommand
    /\ UNCHANGED <<terminal, cmd_buffer, cmd_pos, caps, stage, writer, unechoed,
                   strayed>>

CapsLock ==
    /\ caps' = ~caps
    /\ ran' = NoCommand
    /\ UNCHANGED <<terminal, cmd_buffer, cmd_pos, shift, stage, writer, unechoed,
                   strayed>>

Keyboard == (\E k \in Keys : Char(k)) \/ Backspace \/ Enter \/ Shift \/ CapsLock

-----------------------------------------------------------------------------
(* Boot, processes, and the writer outside interrupts.                     *)

At(point, value) == [at |-> point, value |-> value]
Idle == At("idle", 0)

Becomes(from, to) ==
    /\ stage = from /\ stage' = to
    /\ UNCHANGED <<terminal, line_vars, shift, caps, writer>>

\* kernel_main, with interrupts enabled, sets current_dir ...
SetDirectory == Becomes("start", "dir")

\* ... opens the standard descriptors ...
OpenStdio == Becomes("dir", "open")

\* ... and, having printed its greeting and a prompt, starts the clock.
StartClock == writer = Idle /\ Becomes("open", "running")

\* A process makes the only system call there is.
SyscallExit ==
    /\ stage = "running"
    /\ terminal' = Forget(Write(terminal, Repeat(Printed, ExitLen)))
    /\ UNCHANGED <<line_vars, shift, caps, stage, writer>>

\* Processes also put characters where they like, without moving the cursor.
Paint ==
    /\ stage = "running"
    /\ terminal' = Forget(terminal)
    /\ UNCHANGED <<line_vars, shift, caps, stage, writer>>

\* A step of the writer: what it stores and, in `then`, where that leaves it.
Stores(row, column, then) ==
    /\ terminal' = [row |-> row, column |-> column, cells |-> AllStale]
    /\ writer' = then
    /\ UNCHANGED <<line_vars, shift, caps, stage>>

\* It reads the row and the column, with a character storing that too.  Its
\* register holds the value it will store.
WriterReads ==
    /\ Open /\ writer = Idle
    /\ \E then \in {At("newline", NextRow(terminal.row)),
                    IF terminal.column + 1 = Width
                    THEN At("fill", NextRow(terminal.row))
                    ELSE At("put", terminal.column + 1)} :
         Stores(terminal.row, terminal.column, then)

WriterStoresColumn ==
    \/ writer.at = "put" /\ Stores(terminal.row, writer.value, Idle)
    \/ writer.at = "fill" /\ Stores(terminal.row, 0, At("wrap", writer.value))

WriterWraps == writer.at = "wrap" /\ Stores(writer.value, terminal.column, Idle)

\* terminal_advance_row
WriterAdvances ==
    /\ writer.at = "newline"
    /\ Stores(writer.value, terminal.column,
              At(IF writer.value = 0 THEN "clear" ELSE "home", 0))

\* terminal_clear, its cells and then its two stores
WriterClears ==
    \/ writer.at = "clear" /\ Stores(terminal.row, 0, At("cleared", 0))
    \/ writer.at = "cleared" /\ Stores(0, terminal.column, At("home", 0))

WriterHome == writer.at = "home" /\ Stores(terminal.row, 0, Idle)

Writer == WriterReads \/ WriterStoresColumn \/ WriterWraps \/ WriterAdvances
          \/ WriterClears \/ WriterHome

\* init_terminal prints the prompt without its last character.
Init ==
    /\ terminal = Write(Cleared, Repeat(PromptChar, PromptLen - 1))
    /\ cmd_buffer = [i \in 0..(MaxLen - 1) |-> NUL]
    /\ cmd_pos = 0
    /\ shift = FALSE /\ caps = FALSE
    /\ stage = "start"
    /\ writer = Idle
    /\ ran = NoCommand
    /\ unechoed = FALSE /\ strayed = FALSE

Next ==
    \/ Keyboard
    \/ SetDirectory \/ OpenStdio \/ StartClock
    \/ SyscallExit \/ Paint
    \/ Writer

Spec == Init /\ [][Next]_vars

-----------------------------------------------------------------------------
(* Properties.                                                             *)

\* The cursor is on the screen and cmd_pos leaves room for the NUL, however
\* the writer and the interrupts interleave: terminal_putentryat and Enter
\* store through these indices unchecked.  This rests on the compiler, and
\* holds of what gcc -O2 makes of the code: as written, ++terminal_row ==
\* VGA_HEIGHT stores a row that is off the screen before it stores 0.
TypeOK ==
    /\ terminal \in [row : Rows, column : Columns,
                     cells : [Columns -> Chars \cup {PromptChar, Printed, Space, Stale}]]
    /\ cmd_buffer \in [0..(MaxLen - 1) -> Chars \cup {NUL}]
    /\ cmd_pos \in 0..(MaxLen - 1)
    /\ {shift, caps, unechoed, strayed} \subseteq BOOLEAN
    /\ stage \in {"start", "dir", "open", "running"}
    /\ writer \in [at : {"idle", "put", "fill", "wrap", "newline", "clear", "cleared", "home"},
                   value : Rows \cup Columns]

\* handle_keyboard_interrupt and handle_command are a line editor: what Enter
\* runs is what was typed since the last Enter, less what was erased, split at
\* its first space.  What older lines and their NULs left in cmd_buffer, and
\* keys that came before there was a current directory, are never run.
Editor == INSTANCE LineEditor WITH
    line <- LineOf(cmd_buffer, 0, cmd_pos),
    command <- ran,
    ready <- stage # "start",
    MaxLine <- MaxLen - 1

ImplementsLineEditor == Editor!Spec

\* A whole prompt stands at the beginning of the row of the cursor: nothing
\* has been written to that row since Enter except by the keyboard handler.
PromptShown == \A x \in 0..(PromptLen - 1) : terminal.cells[x] = PromptChar

\* The characters of the line stand in the row, in order, at these places.
StandsAt(at) ==
    /\ \A i, j \in 0..(cmd_pos - 1) : i < j => at[i] < at[j]
    /\ \A i \in 0..(cmd_pos - 1) : terminal.cells[at[i]] = cmd_buffer[i]

\* No character that Enter would run is hidden from the user: all of them
\* stand between the prompt and the cursor, in order, whatever other bytes the
\* echo has printed there and however many of either Backspace has erased.
\* Only if there were such bytes does more than the line stand there, and the
\* user cannot tell them from it.  Keys typed before descriptor 1 was open are
\* in the line and not on the screen.
EchoMatches == PromptShown /\ ~unechoed =>
    /\ \E at \in [0..(cmd_pos - 1) -> PromptLen..(terminal.column - 1)] : StandsAt(at)
    /\ ~strayed => terminal.column = PromptLen + cmd_pos
=============================================================================
