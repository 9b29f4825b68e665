------------------------------- MODULE ShimAlloc -------------------------------
(***************************************************************************)
(* The allocator behind SQLite's C code (src/shim.rs): malloc, free,       *)
(* realloc and calloc over a host allocator that must be told the layout   *)
(* of what it takes back.  The shim keeps the size of a block in front of  *)
(* it.                                                                     *)
(*                                                                         *)
(* Memory is a row of words; usize has Width bits, so that sums and        *)
(* products can exceed it.  An early return, and a host that has no        *)
(* memory, give the caller null and change nothing: stuttering steps.      *)
(***************************************************************************)
EXTENDS Integers, Sequences

CONSTANTS
    Width,      \* of usize, in bits; a word of the model is one cell
    Last,       \* the last address of the heap, a bound
    Values      \* what the C code writes

ASSUME WidthAssumption == Width \in Nat /\ Width > 2
ASSUME HeapAssumption == Last \in Nat

VARIABLES
    mem,        \* the cells of memory
    host,       \* the host's live allocations: address -> size of the layout
    blocks      \* what the C code was given: pointer -> contents it relies on
vars == <<mem, host, blocks>>

USize == 0 .. 2 ^ Width - 1
ISizeMax == 2 ^ (Width - 1) - 1
ALIGN == 2
Addresses == ALIGN .. Last
Unset == -1     \* contents the C code has not written: anything will do

-----------------------------------------------------------------------------
(* Layouts: the set of results is empty where the Rust function gives None *)

CheckedMulWrapping(a, b) == {(a * b) % 2 ^ Width}
CheckedMul(a, b) == {a * b} \cap USize
CheckedAdd(a, b) == {a + b} \cap USize
AllocationLayout(size) == {n \in CheckedAdd(size, ALIGN) : n <= ISizeMax + 1 - ALIGN}

\* from_size_align_unchecked of the size stored in front of a block.
StoredLayout(ptr) == mem[ptr - ALIGN] + ALIGN

-----------------------------------------------------------------------------
(* The host's allocator *)

Cells(base, n) == base .. base + n - 1

\* Where n cells fit, leaving out the allocation at old.
Places(n, old) ==
    {base \in Addresses :
        /\ base % ALIGN = 0 /\ Cells(base, n) \subseteq Addresses
        /\ \A b \in DOMAIN host \ old : Cells(base, n) \cap Cells(b, host[b]) = {}}

\* The host's allocations with this one in place of the old.
Moved(old, base, n) ==
    [b \in (DOMAIN host \ old) \cup {base} |-> IF b = base THEN n ELSE host[b]]

\* realloc copies what both layouts cover.
Copied(old, layout, base, n) ==
    [a \in Addresses |->
        IF a \in Cells(base, n) /\ a - base < layout THEN mem[a - base + old] ELSE mem[a]]

-----------------------------------------------------------------------------
(* The shim *)

Granted(ptr, contents) ==
    [p \in DOMAIN blocks \cup {ptr} |-> IF p = ptr THEN contents ELSE blocks[p]]

Malloc(size) ==
    \E n \in AllocationLayout(size) : \E base \in Places(n, {}) :
        /\ host' = Moved({}, base, n)
        /\ mem' = [mem EXCEPT ![base] = size]
        /\ blocks' = Granted(base + ALIGN, [i \in 1..size |-> Unset])

\* The C code relies on all of num * size cells, whatever that exceeds.
Calloc(num, size) ==
    \E total \in CheckedMul(num, size) : \E n \in AllocationLayout(total) :
        \E base \in Places(n, {}) :
            /\ host' = Moved({}, base, n)
            /\ mem' = [a \in Addresses |->
                    IF a = base THEN total
                    ELSE IF a \in Cells(base + ALIGN, total) THEN 0
                    ELSE mem[a]]
            /\ blocks' = Granted(base + ALIGN, [i \in 1 .. num * size |-> 0])

Free(ptr) ==
    /\ ptr \in DOMAIN blocks
    /\ host' = [b \in DOMAIN host \ {ptr - ALIGN} |-> host[b]]
    /\ blocks' = [p \in DOMAIN blocks \ {ptr} |-> blocks[p]]
    /\ UNCHANGED mem

Realloc(ptr, new_size) ==
    /\ ptr \in DOMAIN blocks
    /\ LET old == ptr - ALIGN
       IN  \E n \in AllocationLayout(new_size) : \E base \in Places(n, {old}) :
            /\ host' = Moved({old}, base, n)
            /\ mem' = [Copied(old, StoredLayout(ptr), base, n) EXCEPT ![base] = new_size]
            /\ blocks' = [p \in (DOMAIN blocks \ {ptr}) \cup {base + ALIGN} |->
                    IF p # base + ALIGN THEN blocks[p]
                    ELSE [i \in 1..new_size |->
                            IF i <= Len(blocks[ptr]) THEN blocks[ptr][i] ELSE Unset]]

ReallocNull(new_size) == Malloc(new_size)

\* The C code writes inside a block it was given.
CallerWrites(ptr, i, value) ==
    /\ ptr \in DOMAIN blocks /\ i \in DOMAIN blocks[ptr]
    /\ mem' = [mem EXCEPT ![ptr + i - 1] = value]
    /\ blocks' = [blocks EXCEPT ![ptr][i] = value]
    /\ UNCHANGED host

Init ==
    /\ mem = [a \in Addresses |-> 0]
    /\ host = <<>>
    /\ blocks = <<>>

Next ==
    \/ \E size \in USize : Malloc(size) \/ ReallocNull(size)
    \/ \E num \in USize, size \in USize : Calloc(num, size)
    \/ \E ptr \in Addresses : Free(ptr)
    \/ \E ptr \in Addresses, new_size \in USize : Realloc(ptr, new_size)
    \/ \E ptr \in Addresses, i \in 1..Last, value \in Values : CallerWrites(ptr, i, value)

Spec == Init /\ [][Next]_vars

-----------------------------------------------------------------------------
(* Properties *)

\* Every block the C code holds is what it relies on, whatever was asked of
\* the allocator since: the host still has it, under the very layout that free
\* and realloc will name for it, it is as long as was asked, and no header,
\* zeroing or copy touched what was written there (shim.rs malloc, free,
\* realloc, calloc: "The old size was validated before allocating the block").
BlocksAreIntact ==
    \A ptr \in DOMAIN blocks :
        /\ ptr - ALIGN \in DOMAIN host
        /\ StoredLayout(ptr) = host[ptr - ALIGN]
        /\ Len(blocks[ptr]) <= mem[ptr - ALIGN]
        /\ \A i \in DOMAIN blocks[ptr] : blocks[ptr][i] \in {Unset, mem[ptr + i - 1]}

=============================================================================
