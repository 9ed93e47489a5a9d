--------------------------------- MODULE Libc ---------------------------------
(***************************************************************************)
(* The functions of fake_libc/string.c that the kernel calls, on a memory  *)
(* m, a function from addresses to bytes: what each reads in the order it  *)
(* reads, and the memory after the call for those that write.              *)
(***************************************************************************)
EXTENDS Integers, Sequences

NUL == 0
NULL == -1   \* no address

\* The first address from s on whose byte is not in Skipped.
Past(m, s, Skipped) ==
    LET walk[a \in DOMAIN m] == IF m[a] \in Skipped THEN walk[a + 1] ELSE a
    IN  walk[s]

strlen(m, s) ==
    LET len[a \in DOMAIN m] == IF m[a] = NUL THEN 0 ELSE 1 + len[a + 1]
    IN  len[s]

\* The difference of the first bytes that differ, or of the NULs.
strcmp(m, s1, s2) ==
    LET diff[k \in Nat] == IF m[s1 + k] # NUL /\ m[s1 + k] = m[s2 + k]
                           THEN diff[k + 1] ELSE m[s1 + k] - m[s2 + k]
    IN  diff[0]

\* NULL if there is none; NUL is found at the end of the string.
strchr(m, s, c) ==
    LET found[a \in DOMAIN m] == IF m[a] = c THEN a
                                 ELSE IF m[a] = NUL THEN NULL ELSE found[a + 1]
    IN  found[s]

memcpy(m, dest, src, n) ==
    LET after[k \in 0..n] ==
            IF k = 0 THEN m
            ELSE [after[k - 1] EXCEPT ![dest + k - 1] = after[k - 1][src + k - 1]]
    IN  after[n]

\* From the last byte to the first.
CopyDown(m, dest, src, n) ==
    LET after[k \in 0..n] ==
            IF k = 0 THEN m
            ELSE [after[k - 1] EXCEPT ![dest + n - k] = after[k - 1][src + n - k]]
    IN  after[n]

memmove(m, dest, src, n) ==
    IF dest < src \/ dest >= src + n THEN memcpy(m, dest, src, n)
    ELSE CopyDown(m, dest, src, n)

memset(m, dest, c, n) ==
    [a \in DOMAIN m |-> IF a \in dest..(dest + n - 1) THEN c ELSE m[a]]

\* Into the block that allocate has returned, which has room.
strdup(m, copy, s) ==
    [memcpy(m, copy, s, strlen(m, s)) EXCEPT ![copy + strlen(m, s)] = NUL]

\* strtok(NULL, delim) with the static variable last: the token, the memory
\* and last after the call.
strtok(m, last, delim) ==
    LET delims == {m[delim + k] : k \in 0..(strlen(m, delim) - 1)}
        token == Past(m, last, delims)
        end == Past(m, token, {m[a] : a \in DOMAIN m} \ (delims \cup {NUL}))
    IN  CASE last = NULL -> [token |-> NULL, m |-> m, last |-> NULL]
          [] last # NULL /\ m[token] = NUL -> [token |-> NULL, m |-> m, last |-> NULL]
          [] OTHER -> [token |-> token,
                       m |-> [m EXCEPT ![end] = NUL],
                       last |-> IF m[end] = NUL THEN NULL ELSE end + 1]
=============================================================================
