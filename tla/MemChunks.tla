------------------------------ MODULE MemChunks -------------------------------
(***************************************************************************)
(* MemChunksFile (crates/rsqlite-vfs/src/lib.rs): a file kept in chunks of *)
(* one size, which is given when the file is created or is the length of   *)
(* the first write that succeeds.  Memory may run out at every chunk a     *)
(* write needs.                                                            *)
(***************************************************************************)
EXTENDS Naturals, Sequences

CONSTANTS
    Byte,           \* what a cell can hold
    AddressSpace,   \* the largest file: usize::MAX
    Buffers,        \* what the callers write
    ChunkSizes,     \* what MemChunksFile::new is called with
    Unsized         \* chunk_size before the first write of waiting_for_write()

ASSUME ByteAssumption == 0 \in Byte
ASSUME AddressSpaceAssumption == AddressSpace \in Nat
ASSUME BufferAssumption == Buffers \subseteq Seq(Byte) \ {<<>>}
ASSUME ChunkSizeAssumption == ChunkSizes \subseteq Nat \ {0} /\ Unsized \notin Nat

VARIABLES chunks, chunk_size, file_size
vars == <<chunks, chunk_size, file_size>>

-----------------------------------------------------------------------------
(* Chunks.  A chunk is a sequence; offsets count from 0, as in the code.   *)

Smaller(a, b) == IF a < b THEN a ELSE b
Larger(a, b) == IF a > b THEN a ELSE b

ZeroChunk(size) == [i \in 1..size |-> 0]

\* How many chunks of a size a file of `end` bytes needs; end is not 0.
ChunksFor(end, size) == (end - 1) \div size + 1

\* slice[at..at + n].copy_from_slice(source[from..from + n])
CopyInto(slice, at, source, from, n) ==
    [i \in DOMAIN slice |-> IF at < i /\ i <= at + n THEN source[i - at + from] ELSE slice[i]]

-----------------------------------------------------------------------------
(* Reading *)

\* The part of a read that chunk `idx` serves; out is what was read before it.
ReadChunk(acc, idx) ==
    LET n == Smaller(chunk_size - acc.remaining_idx, acc.size)
    IN  [out |-> acc.out \o SubSeq(chunks[idx + 1], acc.remaining_idx + 1, acc.remaining_idx + n),
         size |-> acc.size - n, remaining_idx |-> 0]

\* The state of read's loop after n iterations from chunk `first` on.  Where the
\* code breaks, with size 0, the other iterations copy nothing.
ReadLoop(acc, first, n) ==
    LET after[k \in 0..n] == IF k = 0 THEN acc ELSE ReadChunk(after[k - 1], first + k - 1)
    IN  after[n]

\* A read of one whole chunk that lies within the file.
WholeChunkUnchecked(length, offset) == chunk_size = length /\ offset % chunk_size = 0
WholeChunk(length, offset) ==
    chunk_size = length /\ offset % chunk_size = 0 /\ file_size - offset >= length

\* The bytes read() puts into a buffer of this length.
Read(length, offset) ==
    IF length = 0 \/ offset >= file_size \/ chunk_size = Unsized THEN <<>>
    ELSE IF WholeChunk(length, offset) THEN chunks[offset \div chunk_size + 1]
    ELSE ReadLoop([out |-> <<>>, size |-> Smaller(length, file_size - offset),
                   remaining_idx |-> offset % chunk_size],
                  offset \div chunk_size, Len(chunks) - (offset \div chunk_size)).out

\* xRead: the whole buffer, and whether SQLite is told of a short read.
XRead(length, offset) ==
    LET got == Read(length, offset)
    IN  [buf |-> got \o ZeroChunk(length - Len(got)), short |-> Len(got) < length]

-----------------------------------------------------------------------------
(* Writing *)

\* One iteration of write's loop: the next part of the buffer goes to chunk idx.
WriteChunkFromStart(acc, idx) ==
    LET n == Smaller(acc.chunk_size - acc.remaining_idx, acc.size)
    IN  [acc EXCEPT !.chunks[idx + 1] = CopyInto(@, acc.remaining_idx, acc.buf, acc.offset, n),
                    !.size = @ - n, !.remaining_idx = 0]
WriteChunk(acc, idx) ==
    LET n == Smaller(acc.chunk_size - acc.remaining_idx, acc.size)
    IN  [acc EXCEPT !.chunks[idx + 1] = CopyInto(@, acc.remaining_idx, acc.buf, acc.offset, n),
                    !.offset = @ + n, !.size = @ - n, !.remaining_idx = 0]

\* The state of write's loop after n iterations from chunk `first` on.
WriteLoop(acc, first, n) ==
    LET after[k \in 0..n] == IF k = 0 THEN acc ELSE WriteChunk(after[k - 1], first + k - 1)
    IN  after[n]

\* The chunks c, of size cs, with the buffer written at the offset.
Written(c, cs, buf, offset) ==
    IF cs = Len(buf) /\ offset % cs = 0 THEN [c EXCEPT ![offset \div cs + 1] = buf]
    ELSE WriteLoop([chunks |-> c, chunk_size |-> cs, buf |-> buf, offset |-> 0,
                    size |-> Len(buf), remaining_idx |-> offset % cs],
                   offset \div cs,
                   (offset + Len(buf) - 1) \div cs - (offset \div cs) + 1).chunks

ChunkSizeFor(buf) == IF chunk_size = Unsized THEN Len(buf) ELSE chunk_size

\* The chunks with k new ones behind them.
Grown(k, size) == chunks \o [i \in 1..k |-> ZeroChunk(size)]

NewChunks(buf, offset) ==
    Larger(0, ChunksFor(offset + Len(buf), ChunkSizeFor(buf)) - Len(chunks))

Write(buf, offset) ==
    /\ offset + Len(buf) <= AddressSpace
    /\ chunks' = Written(Grown(NewChunks(buf, offset), ChunkSizeFor(buf)),
                         ChunkSizeFor(buf), buf, offset)
    /\ chunk_size' = ChunkSizeFor(buf)
    /\ file_size' = Larger(file_size, offset + Len(buf))

\* Memory runs out at the chunk after the k-th new one: the new ones go.
WriteFailsKeeping(buf, offset, k) ==
    /\ offset + Len(buf) <= AddressSpace
    /\ k < NewChunks(buf, offset)
    /\ chunks' = Grown(k, ChunkSizeFor(buf))
    /\ UNCHANGED <<chunk_size, file_size>>
WriteFails(buf, offset, k) ==
    /\ offset + Len(buf) <= AddressSpace
    /\ k < NewChunks(buf, offset)
    /\ chunks' = SubSeq(Grown(k, ChunkSizeFor(buf)), 1, Len(chunks))
    /\ UNCHANGED <<chunk_size, file_size>>

-----------------------------------------------------------------------------
(* Truncating *)

\* The chunks that remain, the bytes after the new end zeroed.
ShortenedUncleared(size) ==
    IF size = 0 THEN <<>> ELSE SubSeq(chunks, 1, ChunksFor(size, chunk_size))
Shortened(size) ==
    LET last == ChunksFor(size, chunk_size)
        tail == size % chunk_size
    IN  IF size = 0 THEN <<>>
        ELSE [i \in 1..last |->
                IF i = last /\ size < file_size /\ tail # 0
                THEN [j \in 1..chunk_size |-> IF j <= tail THEN chunks[i][j] ELSE 0]
                ELSE chunks[i]]

Truncate(size) ==
    /\ size <= file_size
    /\ chunks' = IF chunk_size = Unsized THEN chunks ELSE Shortened(size)
    /\ file_size' = size
    /\ UNCHANGED chunk_size

-----------------------------------------------------------------------------
Init ==
    /\ chunks = <<>>
    /\ chunk_size \in ChunkSizes \cup {Unsized}
    /\ file_size = 0

Next ==
    \/ \E buf \in Buffers, offset \in 0..AddressSpace : Write(buf, offset)
    \/ \E buf \in Buffers, offset \in 0..AddressSpace, k \in 0..AddressSpace :
            WriteFails(buf, offset, k)
    \/ \E size \in 0..AddressSpace : Truncate(size)

Spec == Init /\ [][Next]_vars

-----------------------------------------------------------------------------
(* Properties *)

\* The chunks all have the file's chunk size, and there are exactly as many as
\* the file's size needs: a write that failed for want of memory left none
\* behind, of its own size or too many (lib.rs write, truncate).
ChunksFitTheFile ==
    /\ file_size \in 0..AddressSpace
    /\ chunk_size = Unsized => file_size = 0 /\ chunks = <<>>
    /\ chunk_size # Unsized =>
        /\ chunks \in Seq([1..chunk_size -> Byte])
        /\ Len(chunks) = IF file_size = 0 THEN 0 ELSE ChunksFor(file_size, chunk_size)

\* Cell `at` of the chunks laid end to end.
Cell(at) == chunks[(at \div chunk_size) + 1][(at % chunk_size) + 1]

\* What is allocated behind the end of the file holds zeros, so that a later
\* write past the end cannot bring back what a truncation removed.
AllocatedTailIsZero ==
    chunk_size # Unsized =>
        \A at \in 0..AddressSpace :
            file_size <= at /\ at < Len(chunks) * chunk_size => Cell(at) = 0

\* The file as one array of bytes.
Contents == [i \in 1..file_size |-> Cell(i - 1)]

Flat == INSTANCE ByteFile WITH bytes <- Contents

\* The chunked file implements the flat one: whatever the chunk size, every
\* write, truncation and failure does to the contents what it does to an array.
ImplementsByteFile == Flat!Spec

\* Every read SQLite can make returns the array's bytes and then zeros, and
\* is reported short exactly when it passes the end (lib.rs read, xRead).
ReadsAgree ==
    \A offset \in 0..AddressSpace, length \in 0..AddressSpace :
        XRead(length, offset) =
            [buf |-> [i \in 1..length |->
                        IF offset + i <= file_size THEN Contents[offset + i] ELSE 0],
             short |-> length > 0 /\ offset + length > file_size]

=============================================================================
