-------------------------------- MODULE Loader --------------------------------
(***************************************************************************)
(* init_elf of elf/elf.c, called by the shell's run command: two passes    *)
(* over the program headers of a file, the block for the program and the   *)
(* stack, and init_process.  It runs in the keyboard interrupt, so nothing *)
(* comes between its steps.  Addresses are those of a machine with         *)
(* AddressSpace of them, where sums wrap.  The file stands in memory from  *)
(* address 0 on; each of its bytes is a value of its own.                  *)
(***************************************************************************)
EXTENDS Libc, FiniteSets, FiniteSetsExt

CONSTANTS
    AddressSpace,   \* 2^32
    FileLen,        \* bound: the length of a file
    MaxHeaders,     \* bound: e_phnum
    Sizes,          \* bound: the values of p_memsz and p_filesz
    Offsets,        \* bound: the values of p_offset
    Entries         \* bound: the values of e_entry

ASSUME LoaderAssumption ==
    /\ {AddressSpace, FileLen, MaxHeaders} \subseteq Nat \ {0}
    /\ Sizes \cup Offsets \cup Entries \subseteq 0..(AddressSpace - 1)

VARIABLES
    readable,    \* is_readable(f) = 0
    entry,       \* e_entry
    header,      \* the program headers of the file
    pc,
    i,           \* the loops' variable
    size, min_vaddr,
    memory,      \* the file, the block for the program, and beyond
    held,        \* what the heap counts as in use: "text", "stack"
    start        \* the address the process starts at

file == <<readable, entry, header>>
vars == <<file, pc, i, size, min_vaddr, memory, held, start>>

Other == "other"   \* a byte that belongs to somebody else
Addresses == 0..(AddressSpace - 1)
TextSpace == FileLen
Memory == 0..(TextSpace + 2 * AddressSpace)

Wrap(n) == n % AddressSpace

Headers == [load : BOOLEAN, offset : Offsets, vaddr : Addresses,
            filesz : Sizes, memsz : Sizes]

Init ==
    /\ readable \in BOOLEAN
    /\ entry \in Entries
    /\ header \in UNION {[1..n -> Headers] : n \in 0..MaxHeaders}
    /\ pc = "check" /\ i = 1
    /\ size = 0 /\ min_vaddr = AddressSpace - 1
    /\ memory = [a \in Memory |-> IF a < FileLen THEN a + 1 ELSE Other]
    /\ held = {} /\ start = NULL

GoTo(point) == pc' = point /\ i' = 1

\* The magic number, the class, the byte order, the type and the machine.
IsReadable ==
    /\ pc = "check"
    /\ GoTo(IF readable THEN "scan" ELSE "error")
    /\ UNCHANGED <<file, size, min_vaddr, memory, held, start>>

\* "If LOAD", says the comment: a header of another type is skipped unless it
\* takes no memory.
Skipped(h) == ~h.load /\ h.memsz > 0

\* Mutant: the gap to the lower segment is not counted.
GrownBySegment(h) == Wrap(size + h.memsz)

\* A segment below all others makes the block grow downwards ...
GrownDown(h) == Wrap(size + (min_vaddr - h.vaddr))

\* ... and one that ends above it, upwards.
Scanned(h) ==
    LET lower == h.vaddr < min_vaddr
        base == IF lower THEN h.vaddr ELSE min_vaddr
        room == IF ~lower THEN size
                ELSE IF size > 0 THEN GrownDown(h) ELSE h.memsz
        end == Wrap(h.vaddr + h.memsz)
    IN  [base |-> base,
         size |-> IF end > Wrap(base + room) THEN Wrap(end - base) ELSE room]

Scan ==
    /\ pc = "scan"
    /\ IF i > Len(header) THEN GoTo("allocate") /\ UNCHANGED <<size, min_vaddr>>
       ELSE /\ i' = i + 1 /\ UNCHANGED pc
            /\ size' = IF Skipped(header[i]) THEN size ELSE Scanned(header[i]).size
            /\ min_vaddr' = IF Skipped(header[i]) THEN min_vaddr
                            ELSE Scanned(header[i]).base
    /\ UNCHANGED <<file, memory, held, start>>

\* allocate returns NULL for a size of 0, and may for any; a block that it
\* grants ends before the address space does.
Allocate ==
    /\ pc = "allocate"
    /\ \/ GoTo("error") /\ UNCHANGED held
       \/ /\ size > 0 /\ TextSpace + size <= AddressSpace
          /\ GoTo("copy") /\ held' = {"text"}
    /\ UNCHANGED <<file, size, min_vaddr, memory, start>>

\* Every segment goes to the start of the block.
Copied(h) ==
    memset(memcpy(memory, TextSpace, h.offset, h.filesz),
           TextSpace + h.filesz, NUL, Wrap(h.memsz - h.filesz))

Copy ==
    /\ pc = "copy"
    /\ IF i > Len(header) THEN GoTo("stack") /\ UNCHANGED memory
       ELSE /\ i' = i + 1 /\ UNCHANGED pc
            /\ memory' = IF Skipped(header[i]) THEN memory ELSE Copied(header[i])
    /\ UNCHANGED <<file, size, min_vaddr, held, start>>

\* Mutant: only the stack is found missing.
KeepText == UNCHANGED held

FreeText == held' = held \ {"text"}

AllocateStack ==
    /\ pc = "stack"
    /\ \/ GoTo("error") /\ FreeText
       \/ GoTo("start") /\ held' = held \cup {"stack"}
    /\ UNCHANGED <<file, size, min_vaddr, memory, start>>

\* init_process; the table may be full, which stops the machine.
Start ==
    /\ pc = "start"
    /\ \/ GoTo("running") /\ start' = Wrap(TextSpace + entry - min_vaddr)
       \/ GoTo("halted") /\ UNCHANGED start
    /\ UNCHANGED <<file, size, min_vaddr, memory, held>>

Next == IsReadable \/ Scan \/ Allocate \/ Copy \/ AllocateStack \/ Start

Spec == Init /\ [][Next]_vars

-----------------------------------------------------------------------------
(* Properties.                                                             *)

Segments == {h \in {header[n] : n \in DOMAIN header} : h.load}

\* What a linker makes: segments that lie in the file and in the address
\* space, headers of other types that take memory, code somewhere.
WellFormed ==
    /\ \A n \in DOMAIN header : header[n].load \/ header[n].memsz > 0
    /\ \A h \in Segments :
         /\ h.filesz <= h.memsz /\ h.offset + h.filesz <= FileLen
         /\ h.vaddr + h.memsz < AddressSpace
    /\ \E h \in Segments : h.memsz > 0

Block == TextSpace..(TextSpace + size - 1)

\* The block is as large as the segments are apart, in whatever order their
\* headers come (elf.h:156, "one contiguous block for all").
SpansSegments ==
    LET bottom == Min({h.vaddr : h \in Segments})
        top == Max({h.vaddr + h.memsz : h \in Segments})
    IN  /\ min_vaddr = bottom
        /\ size <= top - bottom
        /\ \A h \in Segments : h.memsz > 0 => h.vaddr + h.memsz - bottom <= size

\* Nothing but the block has been written to.
StaysInBlock ==
    \A a \in Memory \ Block : memory[a] = IF a < FileLen THEN a + 1 ELSE Other

\* Byte k of segment h as the program should see it.
ImageByte(h, k) == IF k < h.filesz THEN h.offset + k + 1 ELSE NUL

\* Of the headers N, n is the last whose segment has a byte k.
LastWith(N, n, k) ==
    /\ n \in N /\ header[n].load /\ k \in 0..(header[n].memsz - 1)
    /\ \A m \in N : m > n /\ header[m].load => header[m].memsz <= k

\* At offset k of the block stands byte k of the last segment that has one,
\* uninitialised parts zeroed, and the process starts at the byte as far from
\* the start of the block as its entry point is from the lowest segment.
LastCopyStands ==
    \A n \in DOMAIN header :
        /\ \A k \in 0..(size - 1) :
             LastWith(DOMAIN header, n, k) => memory[TextSpace + k] = ImageByte(header[n], k)
        /\ pc = "running" /\ LastWith(DOMAIN header, n, entry - min_vaddr) =>
             memory[start] = ImageByte(header[n], entry - min_vaddr)

\* From the last copy on, a program as linkers make them has its block, has
\* written nowhere else, and no byte of a segment is missing but those that a
\* later segment was copied over (elf.c:31-76).  A segment is where the program
\* looks for it if it is the lowest: so a program of one segment is there byte
\* for byte, and one of several is not.
TextHoldsProgram ==
    pc \in {"stack", "start", "running"} /\ WellFormed =>
        SpansSegments /\ StaysInBlock /\ LastCopyStands

\* A call that fails holds no block afterwards; one that succeeds holds two,
\* of which exit gives back the stack (elf.c:57-83).
ErrorsHoldNothing ==
    /\ pc = "error" => held = {}
    /\ pc = "running" => held = {"text", "stack"}
=============================================================================
