------------------------------- MODULE MCHeap -------------------------------
(* Small heaps with the real header of 9 bytes: whole blocks of 64 bytes   *)
(* split down to 32 or 16, and a bound of two or three of them.            *)
EXTENDS Heap

MCBlockSize == [s \in MinScale..MaxScale |-> 2 ^ s]
AnyIncrement == -2..2
OneBlock == {-1, 1}
=============================================================================
