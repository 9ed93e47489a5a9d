------------------------------ MODULE LineEditor ------------------------------
(***************************************************************************)
(* What the user of the shell is promised: the keys typed since the last   *)
(* Enter, less those erased, are a line of at most MaxLine characters, and *)
(* Enter runs the command that line says, its name up to the first space   *)
(* and the rest as its argument.  Nothing else is ever run.                *)
(***************************************************************************)
EXTENDS Integers, Sequences, SequencesExt, FiniteSetsExt

CONSTANTS Chars, Space, MaxLine

VARIABLES
    line,      \* what has been typed
    command,   \* what the last key ran, NoCommand if nothing
    ready      \* there is a current directory

NoCommand == [name |-> <<>>, args |-> <<>>]

\* args is empty if there is no space, which differs from an empty argument.
CommandOf(l) ==
    LET spaces == {i \in DOMAIN l : l[i] = Space}
        first == Min(spaces)
    IN  IF spaces = {} THEN [name |-> l, args |-> <<>>]
        ELSE [name |-> SubSeq(l, 1, first - 1),
              args |-> <<SubSeq(l, first + 1, Len(l))>>]

Init == line = <<>> /\ command = NoCommand /\ ready = FALSE

BecomeReady == ready' = TRUE /\ UNCHANGED <<line, command>>

Type == \E c \in Chars :
    /\ Len(line) < MaxLine
    /\ line' = Append(line, c)
    /\ command' = NoCommand
    /\ UNCHANGED ready

Erase ==
    /\ line # <<>>
    /\ line' = Front(line)
    /\ command' = NoCommand
    /\ UNCHANGED ready

\* A line whose name is empty, and any line typed too early, is dropped.
Submit ==
    /\ line' = <<>>
    /\ command' = IF ready /\ CommandOf(line).name # <<>>
                  THEN CommandOf(line) ELSE NoCommand
    /\ UNCHANGED ready

\* Any other key: a modifier, a character too many, nothing left to erase.
OtherKey == command' = NoCommand /\ UNCHANGED <<line, ready>>

Next == BecomeReady \/ Type \/ Erase \/ Submit \/ OtherKey

Spec == Init /\ [][Next]_<<line, command, ready>>
=============================================================================
