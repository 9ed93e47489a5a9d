---------------------------- MODULE HeapContract ----------------------------
(***************************************************************************)
(* What heap.h promises to the rest of the kernel, with no word of blocks, *)
(* scales or lists: pointers to regions that never overlap, until freed.   *)
(***************************************************************************)
EXTENDS Integers

CONSTANTS Pointers,    \* the addresses allocate may return; 0 is NULL
          Requests,    \* the sizes callers ask for
          MaxRequest   \* the largest size that can be had

VARIABLES regions,     \* the regions callers own: pointer to size
          freeing,     \* a call of free has released its region, not returned yet
          ret          \* what the last call returned

vars == <<regions, freeing, ret>>

Overlaps(p, m, q, n) == p < q + n /\ q < p + m

Init ==
    /\ regions = [p \in {} |-> 0]
    /\ freeing = FALSE
    /\ ret = [op |-> "none", val |-> 0]

\* allocate of a possible size: a region that meets no other.
Allocate(size, p) ==
    /\ ~freeing /\ size \in 1..MaxRequest
    /\ \A q \in DOMAIN regions : ~Overlaps(p, size, q, regions[q])
    /\ regions' = [q \in DOMAIN regions \cup {p} |-> IF q = p THEN size ELSE regions[q]]
    /\ ret' = [op |-> "allocate", size |-> size, val |-> p]
    /\ UNCHANGED freeing

\* allocate of any other size, and of no other: NULL.
Refuse(size) ==
    /\ ~freeing /\ size \notin 1..MaxRequest
    /\ ret' = [op |-> "allocate", size |-> size, val |-> 0]
    /\ UNCHANGED <<regions, freeing>>

\* free of an owned region ...
Release(p) ==
    /\ ~freeing /\ freeing' = TRUE
    /\ regions' = [q \in DOMAIN regions \ {p} |-> regions[q]]
    /\ UNCHANGED ret

\* ... returns 0.
Released ==
    /\ freeing /\ freeing' = FALSE
    /\ ret' = [op |-> "free", val |-> 0]
    /\ UNCHANGED regions

\* free of NULL or of a block already free: 1, and nothing changes.
RefuseFree ==
    /\ ~freeing
    /\ ret' = [op |-> "free", val |-> 1]
    /\ UNCHANGED <<regions, freeing>>

\* sbrk leaves every region alone.
Adjust(x) ==
    /\ ~freeing
    /\ ret' = [op |-> "sbrk", val |-> x]
    /\ UNCHANGED <<regions, freeing>>

Next ==
    \/ \E size \in Requests :
         Refuse(size) \/ \E p \in Pointers : Allocate(size, p)
    \/ \E p \in DOMAIN regions : Release(p)
    \/ Released \/ RefuseFree
    \/ \E x \in {-1, 0} : Adjust(x)

Spec == Init /\ [][Next]_vars /\ WF_vars(Released)
=============================================================================
