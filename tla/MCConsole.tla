------------------------------ MODULE MCConsole ------------------------------
(* A letter and the space, a line of three characters, two rows: names and  *)
(* arguments, buffers that are full, rows that fill and a screen that wraps. *)
EXTENDS Console, TLC

MCShiftMap == "a" :> "A" @@ " " :> " "
MCStrays == {<<>>, <<Printed>>, <<NewLine>>, <<Printed, Printed>>}
=============================================================================
