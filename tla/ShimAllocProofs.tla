--------------------------- MODULE ShimAllocProofs ---------------------------
(***************************************************************************)
(* Proofs about ShimAlloc, for every width of usize, every size of the     *)
(* heap and whatever the C code asks for and writes.                       *)
(***************************************************************************)
EXTENDS ShimAlloc, TLAPS

-----------------------------------------------------------------------------
(* The inductive invariant *)

\* The host's allocations lie in the heap, are not empty and do not overlap.
HostInv ==
    /\ DOMAIN mem = Addresses
    /\ \A b \in DOMAIN host :
          /\ b \in Addresses /\ host[b] \in Nat \ {0}
          /\ Cells(b, host[b]) \subseteq Addresses
    /\ \A b, c \in DOMAIN host : b # c => Cells(b, host[b]) \cap Cells(c, host[c]) = {}

\* A block fills its allocation up to the header, which has its very length,
\* and memory holds what the C code relies on.
Intact(ptr) ==
    /\ ptr \in Int /\ ptr - ALIGN \in DOMAIN host
    /\ blocks[ptr] \in Seq(Values \cup {Unset, 0})
    /\ host[ptr - ALIGN] = Len(blocks[ptr]) + ALIGN
    /\ mem[ptr - ALIGN] = Len(blocks[ptr])
    /\ \A i \in 1..Len(blocks[ptr]) : blocks[ptr][i] \in {Unset, mem[ptr + i - 1]}

HeapInv == HostInv /\ \A ptr \in DOMAIN blocks : Intact(ptr)

-----------------------------------------------------------------------------
(* Layouts and places *)

\* A layout that did not overflow is the size and the header.
LEMMA LayoutFacts ==
    ASSUME NEW size \in USize, NEW n \in AllocationLayout(size)
    PROVE  size \in Nat /\ n \in Nat \ {0} /\ n = size + ALIGN
  <1>1. size \in Nat
    BY DEF USize
  <1>. QED  BY <1>1 DEF AllocationLayout, CheckedAdd, ALIGN

\* A product that did not overflow is the product.
LEMMA ProductFacts ==
    ASSUME NEW num \in USize, NEW size \in USize, NEW total \in CheckedMul(num, size)
    PROVE  total \in USize /\ total = num * size
  BY DEF CheckedMul

\* Where the host puts an allocation.
LEMMA PlaceFacts ==
    ASSUME HostInv, NEW n \in Nat \ {0}, NEW old, NEW base \in Places(n, old)
    PROVE  /\ base \in Addresses /\ base \in Int
           /\ Cells(base, n) \subseteq Addresses
           /\ \A b \in DOMAIN host \ old :
                 b # base /\ Cells(base, n) \cap Cells(b, host[b]) = {}
  <1>1. base \in Int /\ base \in Cells(base, n)
    BY DEF Places, Addresses, Cells
  <1>2. ASSUME NEW b \in DOMAIN host
        PROVE  b \in Cells(b, host[b])
    BY DEF HostInv, Addresses, Cells
  <1>. QED  BY <1>1, <1>2 DEF Places

\* The host's allocations stay apart when one is placed.
LEMMA PlacingKeepsApart ==
    ASSUME HostInv, NEW n \in Nat \ {0}, NEW old, NEW base \in Places(n, old),
           host' = Moved(old, base, n), DOMAIN mem' = Addresses
    PROVE  HostInv'
  <1>1. /\ DOMAIN host' = (DOMAIN host \ old) \cup {base} /\ host'[base] = n
        /\ \A b \in DOMAIN host \ old : host'[b] = host[b]
    BY PlaceFacts DEF Moved
  <1>2. ASSUME NEW b \in DOMAIN host'
        PROVE  /\ b \in Addresses /\ host'[b] \in Nat \ {0}
               /\ Cells(b, host'[b]) \subseteq Addresses
    BY <1>1, <1>2, PlaceFacts DEF HostInv
  <1>3. ASSUME NEW b \in DOMAIN host', NEW c \in DOMAIN host', b # c
        PROVE  Cells(b, host'[b]) \cap Cells(c, host'[c]) = {}
    BY <1>1, <1>3, PlaceFacts DEF HostInv
  <1>. QED  BY <1>2, <1>3 DEF HostInv, Cells

\* A block of another allocation does not notice what is written to this one.
LEMMA OthersStayIntact ==
    ASSUME HeapInv, NEW n \in Nat \ {0}, NEW old, NEW base \in Places(n, old),
           host' = Moved(old, base, n),
           \A a \in Addresses : a \notin Cells(base, n) => mem'[a] = mem[a],
           NEW ptr \in DOMAIN blocks, ptr - ALIGN \notin old, blocks'[ptr] = blocks[ptr]
    PROVE  Intact(ptr)' /\ ptr # base + ALIGN
  <1>1. PICK b \in DOMAIN host : b = ptr - ALIGN
    BY DEF HeapInv, Intact
  <1>2. /\ ptr \in Int /\ blocks[ptr] \in Seq(Values \cup {Unset, 0})
        /\ host[b] = Len(blocks[ptr]) + ALIGN /\ mem[b] = Len(blocks[ptr])
        /\ \A i \in 1..Len(blocks[ptr]) : blocks[ptr][i] \in {Unset, mem[ptr + i - 1]}
    BY <1>1 DEF HeapInv, Intact
  <1>3. /\ b # base /\ Cells(base, n) \cap Cells(b, host[b]) = {}
        /\ Cells(b, host[b]) \subseteq Addresses /\ base \in Int
    BY <1>1, PlaceFacts DEF HeapInv, HostInv
  <1>4. b \in DOMAIN host' /\ host'[b] = host[b]
    BY <1>1, <1>3 DEF Moved
  <1>5. \A a \in Cells(b, host[b]) : mem'[a] = mem[a]
    BY <1>3
  <1>6. Len(blocks[ptr]) \in Nat
    BY <1>2
  <1>7. b \in Cells(b, host[b]) /\ \A i \in 1..Len(blocks[ptr]) : ptr + i - 1 \in Cells(b, host[b])
    BY <1>1, <1>2, <1>6 DEF Cells, ALIGN
  <1>8. mem'[b] = mem[b] /\ \A i \in 1..Len(blocks[ptr]) : mem'[ptr + i - 1] = mem[ptr + i - 1]
    BY <1>5, <1>7
  <1>9. ptr # base + ALIGN
    BY <1>1, <1>2, <1>3 DEF ALIGN
  <1>. QED  BY <1>1, <1>2, <1>4, <1>8, <1>9 DEF Intact

-----------------------------------------------------------------------------
(* The operations *)

\* A new block: the header goes in front of it, its contents are anything.
LEMMA MallocStep ==
    ASSUME HeapInv, NEW size \in USize, Malloc(size)
    PROVE  HeapInv'
  <1>1. PICK n, base :
            /\ n \in AllocationLayout(size) /\ base \in Places(n, {})
            /\ host' = Moved({}, base, n)
            /\ mem' = [mem EXCEPT ![base] = size]
            /\ blocks' = Granted(base + ALIGN, [i \in 1..size |-> Unset])
    BY DEF Malloc
  <1>2. size \in Nat /\ n \in Nat \ {0} /\ n = size + ALIGN
    BY <1>1, LayoutFacts
  <1>3. base \in Int /\ base \in Addresses /\ base \in Cells(base, n)
    BY <1>1, <1>2, PlaceFacts DEF HeapInv, Cells
  <1>4. DOMAIN mem' = Addresses /\ HostInv'
    BY <1>1, <1>2, PlacingKeepsApart DEF HeapInv, HostInv
  <1>5. \A a \in Addresses : a \notin Cells(base, n) => mem'[a] = mem[a]
    BY <1>1, <1>3 DEF HeapInv, HostInv
  <1>6. Intact(base + ALIGN)'
    <2>1. /\ (base + ALIGN) - ALIGN = base /\ base + ALIGN \in Int
          /\ base \in DOMAIN host' /\ host'[base] = n /\ mem'[base] = size
      BY <1>1, <1>3 DEF Moved, ALIGN, HeapInv, HostInv
    <2>2. blocks'[base + ALIGN] = [i \in 1..size |-> Unset]
      BY <1>1 DEF Granted
    <2>3. /\ [i \in 1..size |-> Unset] \in Seq(Values \cup {Unset, 0})
          /\ Len([i \in 1..size |-> Unset]) = size
      BY <1>2
    <2>. QED  BY <1>2, <2>1, <2>2, <2>3 DEF Intact
  <1>7. ASSUME NEW ptr \in DOMAIN blocks', ptr # base + ALIGN
        PROVE  Intact(ptr)'
    <2>1. ptr \in DOMAIN blocks /\ blocks'[ptr] = blocks[ptr]
      BY <1>1, <1>7 DEF Granted
    <2>. QED  BY <1>1, <1>2, <1>5, <2>1, OthersStayIntact
  <1>. QED  BY <1>4, <1>6, <1>7 DEF HeapInv

\* Zeroed cells: the product that is asked for is the length of the block.
LEMMA CallocStep ==
    ASSUME HeapInv, NEW num \in USize, NEW size \in USize, Calloc(num, size)
    PROVE  HeapInv'
  <1>1. PICK total, n, base :
            /\ total \in CheckedMul(num, size) /\ n \in AllocationLayout(total)
            /\ base \in Places(n, {})
            /\ host' = Moved({}, base, n)
            /\ mem' = [a \in Addresses |->
                    IF a = base THEN total
                    ELSE IF a \in Cells(base + ALIGN, total) THEN 0
                    ELSE mem[a]]
            /\ blocks' = Granted(base + ALIGN, [i \in 1 .. num * size |-> 0])
    BY DEF Calloc
  <1>2. total \in Nat /\ n \in Nat \ {0} /\ n = total + ALIGN /\ total = num * size
    BY <1>1, ProductFacts, LayoutFacts
  <1>3. base \in Int /\ base \in Addresses /\ Cells(base, n) \subseteq Addresses
    BY <1>1, <1>2, PlaceFacts DEF HeapInv
  <1>4. base \in Cells(base, n) /\ Cells(base + ALIGN, total) \subseteq Cells(base, n)
    BY <1>2, <1>3 DEF Cells, ALIGN
  <1>5. HostInv'
    BY <1>1, <1>2, PlacingKeepsApart DEF HeapInv
  <1>6. \A a \in Addresses : a \notin Cells(base, n) => mem'[a] = mem[a]
    BY <1>1, <1>4
  <1>7. Intact(base + ALIGN)'
    <2>1. /\ (base + ALIGN) - ALIGN = base /\ base + ALIGN \in Int
          /\ base \in DOMAIN host' /\ host'[base] = n /\ mem'[base] = total
      BY <1>1, <1>3 DEF Moved, ALIGN
    <2>2. blocks'[base + ALIGN] = [i \in 1..total |-> 0]
      BY <1>1, <1>2 DEF Granted
    <2>3. /\ [i \in 1..total |-> 0] \in Seq(Values \cup {Unset, 0})
          /\ Len([i \in 1..total |-> 0]) = total
      BY <1>2
    <2>4. ASSUME NEW i \in 1..total
          PROVE  mem'[base + ALIGN + i - 1] = 0
      <3>1. base + ALIGN + i - 1 \in Cells(base + ALIGN, total) /\ base + ALIGN + i - 1 # base
        BY <1>2, <1>3 DEF Cells, ALIGN
      <3>. QED  BY <1>1, <1>3, <1>4, <3>1
    <2>. QED  BY <1>2, <2>1, <2>2, <2>3, <2>4 DEF Intact
  <1>8. ASSUME NEW ptr \in DOMAIN blocks', ptr # base + ALIGN
        PROVE  Intact(ptr)'
    <2>1. ptr \in DOMAIN blocks /\ blocks'[ptr] = blocks[ptr]
      BY <1>1, <1>8 DEF Granted
    <2>. QED  BY <1>1, <1>2, <1>6, <2>1, OthersStayIntact
  <1>. QED  BY <1>5, <1>7, <1>8 DEF HeapInv

\* free gives back just the block's own allocation.
LEMMA FreeStep ==
    ASSUME HeapInv, NEW ptr, Free(ptr)
    PROVE  HeapInv'
  <1>1. /\ ptr \in DOMAIN blocks /\ mem' = mem
        /\ DOMAIN host' = DOMAIN host \ {ptr - ALIGN}
        /\ \A b \in DOMAIN host' : host'[b] = host[b]
        /\ DOMAIN blocks' = DOMAIN blocks \ {ptr}
        /\ \A p \in DOMAIN blocks' : blocks'[p] = blocks[p]
    BY DEF Free
  <1>2. HostInv'
    BY <1>1 DEF HeapInv, HostInv, Cells
  <1>3. ASSUME NEW p \in DOMAIN blocks'
        PROVE  Intact(p)'
    <2>1. p - ALIGN # ptr - ALIGN
      BY <1>1, <1>3 DEF HeapInv, Intact, ALIGN
    <2>. QED  BY <1>1, <2>1 DEF HeapInv, Intact
  <1>. QED  BY <1>2, <1>3 DEF HeapInv

\* realloc, in place or elsewhere, keeps what both lengths cover.
LEMMA ReallocStep ==
    ASSUME HeapInv, NEW ptr, NEW new_size \in USize, Realloc(ptr, new_size)
    PROVE  HeapInv'
  <1>0. PICK old : old = ptr - ALIGN
    OBVIOUS
  <1>1. PICK n, base :
            /\ n \in AllocationLayout(new_size) /\ base \in Places(n, {old})
            /\ host' = Moved({old}, base, n)
            /\ mem' = [Copied(old, StoredLayout(ptr), base, n) EXCEPT ![base] = new_size]
            /\ blocks' = [p \in (DOMAIN blocks \ {ptr}) \cup {base + ALIGN} |->
                    IF p # base + ALIGN THEN blocks[p]
                    ELSE [i \in 1..new_size |->
                            IF i <= Len(blocks[ptr]) THEN blocks[ptr][i] ELSE Unset]]
    BY <1>0 DEF Realloc
  <1>2. PICK length \in Nat : length = Len(blocks[ptr])
    BY DEF Realloc, HeapInv, Intact
  <1>3. /\ ptr \in DOMAIN blocks /\ ptr \in Int /\ old \in DOMAIN host
        /\ blocks[ptr] \in Seq(Values \cup {Unset, 0})
        /\ \A i \in 1..length : blocks[ptr][i] \in {Unset, mem[ptr + i - 1]}
        /\ StoredLayout(ptr) = length + ALIGN
    BY <1>0, <1>1, <1>2 DEF Realloc, HeapInv, Intact, StoredLayout
  <1>4. new_size \in Nat /\ n \in Nat \ {0} /\ n = new_size + ALIGN
    BY <1>1, LayoutFacts
  <1>5. base \in Int /\ base \in Addresses /\ Cells(base, n) \subseteq Addresses
    BY <1>1, <1>4, PlaceFacts DEF HeapInv
  <1>6. base \in Cells(base, n)
    BY <1>4, <1>5 DEF Cells
  <1>7. /\ DOMAIN mem' = Addresses /\ mem'[base] = new_size
        /\ \A a \in Addresses \ {base} : mem'[a] = Copied(old, StoredLayout(ptr), base, n)[a]
    BY <1>1, <1>5 DEF Copied
  <1>8. \A a \in Addresses : a \notin Cells(base, n) => mem'[a] = mem[a]
    BY <1>6, <1>7 DEF Copied
  <1>9. HostInv'
    BY <1>1, <1>4, <1>7, PlacingKeepsApart DEF HeapInv
  <1>10. Intact(base + ALIGN)'
    <2>1. /\ (base + ALIGN) - ALIGN = base /\ base + ALIGN \in Int
          /\ base \in DOMAIN host' /\ host'[base] = n
      BY <1>1, <1>5 DEF Moved, ALIGN
    <2>2. PICK c : /\ c = [i \in 1..new_size |-> IF i <= length THEN blocks[ptr][i] ELSE Unset]
                   /\ blocks'[base + ALIGN] = c
      BY <1>1, <1>2
    <2>3. /\ c \in Seq(Values \cup {Unset, 0}) /\ Len(c) = new_size
          /\ \A i \in 1..new_size : c[i] = IF i <= length THEN blocks[ptr][i] ELSE Unset
      <3>1. \A i \in 1..new_size : i <= length => blocks[ptr][i] \in Values \cup {Unset, 0}
        BY <1>2, <1>3, <1>4
      <3>. QED  BY <1>4, <2>2, <3>1
    <2>4. ASSUME NEW i \in 1..new_size, i <= length
          PROVE  mem'[base + ALIGN + i - 1] = mem[ptr + i - 1]
      <3>1. PICK a \in Int : a = base + ALIGN + i - 1
        BY <1>5 DEF ALIGN
      <3>2. a \in Cells(base, n) /\ a # base /\ a - base < length + ALIGN /\ a - base + old = ptr + i - 1
        <4>1. old = ptr - 2 /\ ptr \in Int
          BY <1>0, <1>3 DEF ALIGN
        <4>. QED  BY <1>4, <1>5, <2>4, <3>1, <4>1 DEF Cells, ALIGN
      <3>. QED  BY <1>3, <1>5, <1>7, <3>1, <3>2 DEF Copied
    <2>5. ASSUME NEW i \in 1..new_size
          PROVE  c[i] \in {Unset, mem'[base + ALIGN + i - 1]}
      <3>1. CASE i <= length
        <4>1. c[i] = blocks[ptr][i] /\ mem'[base + ALIGN + i - 1] = mem[ptr + i - 1]
          BY <2>3, <2>4, <3>1
        <4>2. i \in 1..length
          BY <3>1
        <4>. QED  BY <1>3, <4>1, <4>2
      <3>2. CASE ~(i <= length)
        BY <2>3, <3>2
      <3>. QED  BY <3>1, <3>2
    <2>. QED  BY <1>4, <1>7, <2>1, <2>2, <2>3, <2>5 DEF Intact
  <1>11. ASSUME NEW p \in DOMAIN blocks', p # base + ALIGN
         PROVE  Intact(p)'
    <2>1. p \in DOMAIN blocks /\ p # ptr /\ blocks'[p] = blocks[p]
      BY <1>0, <1>1, <1>11
    <2>2. p - ALIGN \notin {old}
      BY <1>0, <1>3, <2>1 DEF HeapInv, Intact, ALIGN
    <2>. QED  BY <1>1, <1>4, <1>8, <2>1, <2>2, OthersStayIntact
  <1>. QED  BY <1>9, <1>10, <1>11 DEF HeapInv

\* The C code's writes inside one block meet no header and no other block.
LEMMA CallerWritesStep ==
    ASSUME HeapInv, NEW ptr, NEW i \in Nat, NEW value \in Values, CallerWrites(ptr, i, value)
    PROVE  HeapInv'
  <1>1. /\ ptr \in DOMAIN blocks /\ i \in DOMAIN blocks[ptr] /\ host' = host
        /\ mem' = [mem EXCEPT ![ptr + i - 1] = value]
        /\ blocks' = [blocks EXCEPT ![ptr][i] = value]
    BY DEF CallerWrites
  <1>2. PICK b \in DOMAIN host : b = ptr - ALIGN
    BY <1>1 DEF HeapInv, Intact
  <1>3. PICK length \in Nat : length = Len(blocks[ptr])
    BY <1>1 DEF HeapInv, Intact
  <1>4. /\ ptr \in Int /\ blocks[ptr] \in Seq(Values \cup {Unset, 0})
        /\ host[b] = length + ALIGN /\ mem[b] = length /\ i \in 1..length
        /\ \A j \in 1..length : blocks[ptr][j] \in {Unset, mem[ptr + j - 1]}
    BY <1>1, <1>2, <1>3 DEF HeapInv, Intact
  <1>5. ptr + i - 1 \in Cells(b, host[b]) /\ ptr + i - 1 # b
    BY <1>2, <1>4 DEF Cells, ALIGN
  <1>6. ptr + i - 1 \in Addresses /\ DOMAIN mem = Addresses
    BY <1>5 DEF HeapInv, HostInv
  <1>7. HostInv'
    BY <1>1, <1>6 DEF HeapInv, HostInv, Cells
  <1>8. Intact(ptr)'
    <2>1. blocks'[ptr] = [blocks[ptr] EXCEPT ![i] = value]
      BY <1>1
    <2>2. /\ blocks'[ptr] \in Seq(Values \cup {Unset, 0}) /\ Len(blocks'[ptr]) = length
          /\ blocks'[ptr][i] = value
          /\ \A j \in 1..length : j # i => blocks'[ptr][j] = blocks[ptr][j]
      BY <1>3, <1>4, <2>1
    <2>3. mem'[b] = mem[b] /\ b \in Addresses
      BY <1>1, <1>2, <1>5, <1>6 DEF HeapInv, HostInv
    <2>4. ASSUME NEW j \in 1..length
          PROVE  blocks'[ptr][j] \in {Unset, mem'[ptr + j - 1]}
      <3>1. CASE j = i
        BY <1>1, <1>6, <2>2, <3>1
      <3>2. CASE j # i
        <4>1. ptr + j - 1 # ptr + i - 1 /\ ptr + j - 1 \in Cells(b, host[b])
          BY <1>2, <1>4, <3>2 DEF Cells, ALIGN
        <4>2. ptr + j - 1 \in Addresses
          BY <4>1 DEF HeapInv, HostInv
        <4>. QED  BY <1>1, <1>4, <1>6, <2>2, <3>2, <4>1, <4>2
      <3>. QED  BY <3>1, <3>2
    <2>. QED  BY <1>1, <1>2, <1>4, <2>2, <2>3, <2>4 DEF Intact
  <1>9. ASSUME NEW p \in DOMAIN blocks, p # ptr
        PROVE  Intact(p)'
    <2>1. PICK c \in DOMAIN host : c = p - ALIGN
      BY DEF HeapInv, Intact
    <2>2. PICK l \in Nat : l = Len(blocks[p])
      BY DEF HeapInv, Intact
    <2>3. /\ p \in Int /\ blocks[p] \in Seq(Values \cup {Unset, 0})
          /\ host[c] = l + ALIGN /\ mem[c] = l
          /\ \A j \in 1..l : blocks[p][j] \in {Unset, mem[p + j - 1]}
      BY <2>1, <2>2 DEF HeapInv, Intact
    <2>4. c # b
      BY <1>2, <1>4, <1>9, <2>1, <2>3 DEF ALIGN
    <2>5. Cells(c, host[c]) \cap Cells(b, host[b]) = {} /\ Cells(c, host[c]) \subseteq Addresses
      BY <2>4 DEF HeapInv, HostInv
    <2>6. \A a \in Cells(c, host[c]) : mem'[a] = mem[a]
      BY <1>1, <1>5, <1>6, <2>5
    <2>7. c \in Cells(c, host[c]) /\ \A j \in 1..l : p + j - 1 \in Cells(c, host[c])
      BY <2>1, <2>3 DEF Cells, ALIGN
    <2>8. blocks'[p] = blocks[p]
      BY <1>1, <1>9
    <2>9. mem'[c] = mem[c] /\ \A j \in 1..l : mem'[p + j - 1] = mem[p + j - 1]
      BY <2>6, <2>7
    <2>10. host' = host
      BY <1>1
    <2>. QED  BY <2>1, <2>2, <2>3, <2>8, <2>9, <2>10 DEF Intact
  <1>10. DOMAIN blocks' = DOMAIN blocks
    BY <1>1
  <1>. QED  BY <1>7, <1>8, <1>9, <1>10 DEF HeapInv

-----------------------------------------------------------------------------
(* The theorems *)

\* The heap stays in order: allocations apart, headers and blocks agreeing.
THEOREM HeapInvariant == Spec => []HeapInv
  <1>1. Init => HeapInv
    BY DEF Init, HeapInv, HostInv
  <1>2. HeapInv /\ [Next]_vars => HeapInv'
    <2>. SUFFICES ASSUME HeapInv, [Next]_vars
                  PROVE  HeapInv'
      OBVIOUS
    <2>1. CASE \E size \in USize : Malloc(size) \/ ReallocNull(size)
      BY <2>1, MallocStep DEF ReallocNull
    <2>2. CASE \E num \in USize, size \in USize : Calloc(num, size)
      BY <2>2, CallocStep
    <2>3. CASE \E ptr \in Addresses : Free(ptr)
      BY <2>3, FreeStep
    <2>4. CASE \E ptr \in Addresses, new_size \in USize : Realloc(ptr, new_size)
      BY <2>4, ReallocStep
    <2>5. CASE \E ptr \in Addresses, i \in 1..Last, value \in Values : CallerWrites(ptr, i, value)
      <3>1. \A i \in 1..Last : i \in Nat
        BY HeapAssumption
      <3>. QED  BY <2>5, <3>1, CallerWritesStep
    <2>6. CASE UNCHANGED vars
      <3>1. mem' = mem /\ host' = host /\ blocks' = blocks
        BY <2>6 DEF vars
      <3>. QED  BY <3>1 DEF HeapInv, HostInv, Intact, Cells
    <2>. QED  BY <2>1, <2>2, <2>3, <2>4, <2>5, <2>6 DEF Next
  <1>. QED  BY <1>1, <1>2, PTL DEF Spec

\* Whatever is allocated, resized, freed and written, a block the C code holds
\* is where the host has it, under the layout that free and realloc will name,
\* and unharmed: no width of usize and no request makes a layout wrap.
THEOREM BlocksStayIntact == Spec => []BlocksAreIntact
  <1>1. HeapInv => BlocksAreIntact
    <2>. SUFFICES ASSUME HeapInv, NEW ptr \in DOMAIN blocks
                  PROVE  /\ ptr - ALIGN \in DOMAIN host
                         /\ StoredLayout(ptr) = host[ptr - ALIGN]
                         /\ Len(blocks[ptr]) <= mem[ptr - ALIGN]
                         /\ \A i \in DOMAIN blocks[ptr] :
                               blocks[ptr][i] \in {Unset, mem[ptr + i - 1]}
      BY DEF BlocksAreIntact
    <2>. QED  BY DEF HeapInv, Intact, StoredLayout
  <1>. QED  BY <1>1, HeapInvariant, PTL

==============================================================================
