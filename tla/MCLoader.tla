------------------------------- MODULE MCLoader -------------------------------
(* Eight addresses and two headers: segments apart, adjoining, overlapping, *)
(* and sums that wrap.  The assumptions compare fake_libc with what its     *)
(* functions are for, on every memory of six bytes with a NUL at its end.   *)
EXTENDS Loader, TLC

Small == 0..5
Memories == {m \in [Small -> 0..2] : m[5] = NUL}

StringAt(m, s) == [k \in 1..strlen(m, s) |-> m[s + k - 1]]

\* m with the n bytes from src on at dest too.
Moved(m, dest, src, n) ==
    [a \in Small |-> IF a \in dest..(dest + n - 1) THEN m[src + a - dest] ELSE m[a]]

ASSUME MemmoveCopies ==
    \A m \in Memories, dest \in Small, src \in Small :
        \A n \in 0..(6 - Max({dest, src})) :
            /\ memmove(m, dest, src, n) = Moved(m, dest, src, n)
            /\ dest <= src \/ dest >= src + n =>
                   memcpy(m, dest, src, n) = Moved(m, dest, src, n)

ASSUME StrcmpIsEquality ==
    \A m \in Memories, s1 \in Small, s2 \in Small :
        (strcmp(m, s1, s2) = 0) <=> (StringAt(m, s1) = StringAt(m, s2))

ASSUME StrchrIsFirst ==
    \A m \in Memories, s \in Small, c \in 1..2 :
        LET at == {a \in s..(s + strlen(m, s) - 1) : m[a] = c}
        IN  strchr(m, s, c) = IF at = {} THEN NULL ELSE Min(at)

ASSUME StrdupCopies ==
    \A m \in Memories, copy \in 3..5 : strlen(m, 0) <= 5 - copy /\ strlen(m, 0) < copy =>
        StringAt(strdup(m, copy, 0), copy) = StringAt(m, 0)

\* Delimiter 2, a string of its own at addresses 6 and 7.
WithDelim(m) == m @@ 6 :> 2 @@ 7 :> NUL

\* The first n calls of strtok, each with the string its token then was.
Calls(m) ==
    LET call[n \in 0..4] ==
            IF n = 0 THEN [token |-> NULL, m |-> WithDelim(m), last |-> 0]
            ELSE strtok(call[n - 1].m, call[n - 1].last, 6)
    IN  call

\* Where the parts between delimiters begin.
PartsOf(m) ==
    {a \in 0..(strlen(m, 0) - 1) : m[a] # 2 /\ (a = 0 \/ m[a - 1] = 2)}

ASSUME StrtokSplits ==
    \A m \in Memories :
        LET calls == Calls(m)
            tokens == {calls[n].token : n \in 1..4} \ {NULL}
        IN  /\ tokens = PartsOf(m)
            /\ \A a \in tokens : \A k \in 1..strlen(calls[4].m, a) :
                 calls[4].m[a + k - 1] = 1
=============================================================================
