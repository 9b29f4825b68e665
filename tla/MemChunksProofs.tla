--------------------------- MODULE MemChunksProofs ----------------------------
(***************************************************************************)
(* Proofs about MemChunks, for every chunk size, address space and buffer: *)
(* what the loops of read and write compute, and that the chunked file is  *)
(* the array of bytes of ByteFile.                                         *)
(***************************************************************************)
EXTENDS MemChunks, Integers, FiniteSetTheorems, SequenceTheorems, TLAPS

-----------------------------------------------------------------------------
(* Induction.  The sets 0..k are finite, and finite sets are well-founded. *)

\* A set of natural numbers that is not empty has a least element.
LEMMA LeastNumber ==
    ASSUME NEW S \in SUBSET Nat, S # {}
    PROVE  \E m \in S : \A k \in S : m <= k
  <1>. DEFINE Upto == {0..k : k \in S}
  <1>1. Upto \subseteq FiniteSubsetsOf(Nat) /\ Upto # {}
    <2>1. \A k \in S : IsFiniteSet(0..k) /\ 0..k \subseteq Nat
      BY FS_Interval
    <2>. QED  BY <2>1 DEF FiniteSubsetsOf
  <1>2. PICK x \in Upto : \A y \in Upto : <<y, x>> \notin StrictSubsetOrdering(Nat)
    BY <1>1, WFMin, FS_StrictSubsetOrderingWellFounded
  <1>3. PICK m \in S : x = 0..m
    BY <1>2
  <1>4. ASSUME NEW k \in S, k < m
        PROVE  FALSE
    <2>1. /\ 0..k \subseteq 0..m /\ 0..k # 0..m /\ 0..k \in Upto
          /\ 0..k \in SUBSET Nat /\ 0..m \in SUBSET Nat
      BY <1>4
    <2>. QED  BY <1>2, <1>3, <2>1 DEF StrictSubsetOrdering
  <1>. QED  BY <1>4

\* Induction over the numbers of a set.
LEMMA NumbersInduction ==
    ASSUME NEW T, 0 \in T, \A n \in Nat : n \in T => n + 1 \in T
    PROVE  Nat \subseteq T
  <1>. SUFFICES ASSUME Nat \ T # {}
                PROVE  FALSE
    OBVIOUS
  <1>1. PICK m \in Nat \ T : \A k \in Nat \ T : m <= k
    BY LeastNumber
  <1>2. m - 1 \in Nat /\ m - 1 \in T
    BY <1>1
  <1>. QED  BY <1>1, <1>2

-----------------------------------------------------------------------------
(* The loops *)

\* The first n iterations of a loop whose state is f[k] after k of them.
WriteRuns(f, acc, first, n) ==
    f = [k \in 0..n |-> IF k = 0 THEN acc ELSE WriteChunk(f[k - 1], first + k - 1)]
ReadRuns(f, acc, first, n) ==
    f = [k \in 0..n |-> IF k = 0 THEN acc ELSE ReadChunk(f[k - 1], first + k - 1)]

\* The states of a whole loop.
WriteTrace(f, acc, first, count) ==
    /\ f[0] = acc /\ f[count] = WriteLoop(acc, first, count)
    /\ \A k \in Nat : k < count => f[k + 1] = WriteChunk(f[k], first + k)
ReadTrace(f, acc, first, count) ==
    /\ f[0] = acc /\ f[count] = ReadLoop(acc, first, count)
    /\ \A k \in Nat : k < count => f[k + 1] = ReadChunk(f[k], first + k)

\* write's loop goes from state to state by WriteChunk.
LEMMA WriteLoopFacts ==
    ASSUME NEW acc, NEW first \in Nat, NEW count \in Nat
    PROVE  \E f : WriteTrace(f, acc, first, count)
  <1>. DEFINE T == {n \in Nat : \E f : WriteRuns(f, acc, first, n)}
  <1>1. 0 \in T
    <2>1. WriteRuns([k \in 0..0 |-> acc], acc, first, 0)
      BY DEF WriteRuns
    <2>. QED  BY <2>1
  <1>2. ASSUME NEW n \in Nat, n \in T
        PROVE  n + 1 \in T
    <2>1. PICK f : WriteRuns(f, acc, first, n)
      BY <1>2
    <2>. DEFINE g == [k \in 0..(n + 1) |-> IF k <= n THEN f[k] ELSE WriteChunk(f[n], first + n)]
    <2>2. ASSUME NEW k \in 0..(n + 1)
          PROVE  g[k] = IF k = 0 THEN acc ELSE WriteChunk(g[k - 1], first + k - 1)
      <3>1. CASE k <= n
        <4>1. /\ k \in 0..n /\ g[k] = f[k]
              /\ k # 0 => k - 1 \in 0..(n + 1) /\ g[k - 1] = f[k - 1]
          BY <3>1
        <4>. QED  BY <2>1, <4>1 DEF WriteRuns
      <3>2. CASE ~(k <= n)
        <4>1. k = n + 1 /\ k - 1 = n /\ k # 0 /\ n \in 0..(n + 1) /\ first + k - 1 = first + n
          BY <3>2
        <4>. QED  BY <3>2, <4>1
      <3>. QED  BY <3>1, <3>2
    <2>3. g = [k \in 0..(n + 1) |-> g[k]]
      OBVIOUS
    <2>. HIDE DEF g
    <2>4. WriteRuns(g, acc, first, n + 1)
      BY <2>2, <2>3 DEF WriteRuns
    <2>. QED  BY <2>4
  <1>. HIDE DEF T
  <1>3. count \in T
    BY <1>1, <1>2, NumbersInduction
  <1>. DEFINE after == CHOOSE f : WriteRuns(f, acc, first, count)
  <1>4. WriteRuns(after, acc, first, count)
    BY <1>3 DEF T
  <1>5. WriteLoop(acc, first, count) = after[count]
    BY DEF WriteLoop, WriteRuns
  <1>. HIDE DEF after
  <1>6. after[0] = acc
    BY <1>4 DEF WriteRuns
  <1>7. ASSUME NEW k \in Nat, k < count
        PROVE  after[k + 1] = WriteChunk(after[k], first + k)
    <2>1. k + 1 \in 0..count /\ k + 1 # 0 /\ k + 1 - 1 = k /\ first + (k + 1) - 1 = first + k
      BY <1>7
    <2>. QED  BY <1>4, <2>1 DEF WriteRuns
  <1>8. WriteTrace(after, acc, first, count)
    BY <1>5, <1>6, <1>7 DEF WriteTrace
  <1>. QED  BY <1>8

\* read's loop goes from state to state by ReadChunk.
LEMMA ReadLoopFacts ==
    ASSUME NEW acc, NEW first \in Nat, NEW count \in Nat
    PROVE  \E f : ReadTrace(f, acc, first, count)
  <1>. DEFINE T == {n \in Nat : \E f : ReadRuns(f, acc, first, n)}
  <1>1. 0 \in T
    <2>1. ReadRuns([k \in 0..0 |-> acc], acc, first, 0)
      BY DEF ReadRuns
    <2>. QED  BY <2>1
  <1>2. ASSUME NEW n \in Nat, n \in T
        PROVE  n + 1 \in T
    <2>1. PICK f : ReadRuns(f, acc, first, n)
      BY <1>2
    <2>. DEFINE g == [k \in 0..(n + 1) |-> IF k <= n THEN f[k] ELSE ReadChunk(f[n], first + n)]
    <2>2. ASSUME NEW k \in 0..(n + 1)
          PROVE  g[k] = IF k = 0 THEN acc ELSE ReadChunk(g[k - 1], first + k - 1)
      <3>1. CASE k <= n
        <4>1. /\ k \in 0..n /\ g[k] = f[k]
              /\ k # 0 => k - 1 \in 0..(n + 1) /\ g[k - 1] = f[k - 1]
          BY <3>1
        <4>. QED  BY <2>1, <4>1 DEF ReadRuns
      <3>2. CASE ~(k <= n)
        <4>1. k = n + 1 /\ k - 1 = n /\ k # 0 /\ n \in 0..(n + 1) /\ first + k - 1 = first + n
          BY <3>2
        <4>. QED  BY <3>2, <4>1
      <3>. QED  BY <3>1, <3>2
    <2>3. g = [k \in 0..(n + 1) |-> g[k]]
      OBVIOUS
    <2>. HIDE DEF g
    <2>4. ReadRuns(g, acc, first, n + 1)
      BY <2>2, <2>3 DEF ReadRuns
    <2>. QED  BY <2>4
  <1>. HIDE DEF T
  <1>3. count \in T
    BY <1>1, <1>2, NumbersInduction
  <1>. DEFINE after == CHOOSE f : ReadRuns(f, acc, first, count)
  <1>4. ReadRuns(after, acc, first, count)
    BY <1>3 DEF T
  <1>5. ReadLoop(acc, first, count) = after[count]
    BY DEF ReadLoop, ReadRuns
  <1>. HIDE DEF after
  <1>6. after[0] = acc
    BY <1>4 DEF ReadRuns
  <1>7. ASSUME NEW k \in Nat, k < count
        PROVE  after[k + 1] = ReadChunk(after[k], first + k)
    <2>1. k + 1 \in 0..count /\ k + 1 # 0 /\ k + 1 - 1 = k /\ first + (k + 1) - 1 = first + k
      BY <1>7
    <2>. QED  BY <1>4, <2>1 DEF ReadRuns
  <1>8. ReadTrace(after, acc, first, count)
    BY <1>5, <1>6, <1>7 DEF ReadTrace
  <1>. QED  BY <1>8

-----------------------------------------------------------------------------
(* Positions.  Chunk idx, counted from 0, holds the bytes from Begin(idx) on. *)

Begin(idx, size) == idx * size

\* A position lies in one chunk, at one place of it.
LEMMA DivisionFacts ==
    ASSUME NEW a \in Nat, NEW b \in Nat \ {0}
    PROVE  /\ a \div b \in Nat /\ a % b \in Nat /\ a % b < b
           /\ a = Begin(a \div b, b) + (a % b)
  BY DEF Begin

\* A chunk and a place in it give one position.
LEMMA DivisionIsUnique ==
    ASSUME NEW b \in Nat \ {0}, NEW q \in Nat, NEW r \in Nat, r < b
    PROVE  (Begin(q, b) + r) \div b = q /\ (Begin(q, b) + r) % b = r
  BY DEF Begin

\* Chunks follow each other: one ends where the next begins.
LEMMA BeginFacts ==
    ASSUME NEW size \in Nat, NEW p \in Nat
    PROVE  /\ Begin(p, size) \in Nat /\ Begin(p + 1, size) = Begin(p, size) + size
           /\ \A q \in Nat : p < q => Begin(p, size) + size <= Begin(q, size)
  <1>1. p * size \in Nat /\ (p + 1) * size = p * size + size
    OBVIOUS
  <1>2. ASSUME NEW q \in Nat, p < q
        PROVE  p * size + size <= q * size
    <2>1. q = (p + 1) + (q - (p + 1)) /\ q - (p + 1) \in Nat
      BY <1>2
    <2>2. q * size = (p + 1) * size + (q - (p + 1)) * size /\ (q - (p + 1)) * size >= 0
      BY <2>1
    <2>. QED  BY <1>1, <2>2
  <1>. QED  BY <1>1, <1>2 DEF Begin

\* A chunk that begins before another one ends does not come after it.
LEMMA BeginOrder ==
    ASSUME NEW size \in Nat, NEW p \in Nat, NEW q \in Nat, Begin(p, size) < Begin(q, size) + size
    PROVE  p <= q
  <1>1. CASE q < p
    <2>1. Begin(q, size) + size <= Begin(p, size) /\ Begin(p, size) \in Nat /\ Begin(q, size) \in Nat
      BY <1>1, BeginFacts
    <2>. QED  BY <2>1
  <1>. QED  BY <1>1

\* The last of the chunks that `end` bytes need holds the last of them.
LEMMA ChunksForFacts ==
    ASSUME NEW end \in Nat \ {0}, NEW size \in Nat \ {0}
    PROVE  \E p \in Nat : /\ ChunksFor(end, size) = p + 1 /\ p = (end - 1) \div size
                         /\ Begin(p, size) \in Nat
                         /\ Begin(p, size) < end /\ end <= Begin(p, size) + size
  <1>1. PICK p \in Nat : p = (end - 1) \div size
    BY DivisionFacts
  <1>2. PICK r \in Nat : r < size /\ end - 1 = Begin(p, size) + r
    <2>1. end - 1 \in Nat
      OBVIOUS
    <2>. QED  BY <1>1, <2>1, DivisionFacts
  <1>3. Begin(p, size) \in Nat
    BY BeginFacts
  <1>4. Begin(p, size) < end /\ end <= Begin(p, size) + size
    BY <1>2, <1>3
  <1>. QED  BY <1>1, <1>3, <1>4 DEF ChunksFor

\* A file that is no longer needs no more chunks.
LEMMA ChunksForOrder ==
    ASSUME NEW size \in Nat \ {0}, NEW a \in Nat \ {0}, NEW b \in Nat \ {0}, a <= b
    PROVE  ChunksFor(a, size) <= ChunksFor(b, size)
  <1>1. PICK p \in Nat : /\ ChunksFor(a, size) = p + 1
                         /\ Begin(p, size) \in Nat /\ Begin(p, size) < a
    BY ChunksForFacts
  <1>2. PICK q \in Nat : /\ ChunksFor(b, size) = q + 1
                         /\ Begin(q, size) \in Nat /\ b <= Begin(q, size) + size
    BY ChunksForFacts
  <1>3. Begin(p, size) < Begin(q, size) + size
    BY <1>1, <1>2
  <1>4. p <= q
    BY <1>3, BeginOrder
  <1>. QED  BY <1>1, <1>2, <1>4

-----------------------------------------------------------------------------
(* Writing *)

\* A file's chunks.
Chunks(size) == Seq([1..size -> Byte])

\* What cell j of chunk i, counted from 1, holds after `done` bytes of the
\* buffer have been written at the offset.
Put(c, size, buf, offset, done, i, j) ==
    LET at == Begin(i - 1, size) + j - 1
    IN  IF offset <= at /\ at < offset + done THEN buf[at - offset + 1] ELSE c[i][j]

\* The state of write's loop after k of its iterations: `done` bytes are written
\* and, while there is one left, the next goes to the chunk whose turn it is.
WriteStateOf(acc, c, size, buf, offset, first, k, count, d, done, left, r) ==
    /\ acc = [chunks |-> d, chunk_size |-> size, buf |-> buf,
              offset |-> done, size |-> left, remaining_idx |-> r]
    /\ done + left = Len(buf)
    /\ k < count => left > 0 /\ r < size /\ offset + done = Begin(first + k, size) + r
    /\ k = count => left = 0
    /\ Len(d) = Len(c)
    /\ \A i \in 1..Len(c), j \in 1..size : d[i][j] = Put(c, size, buf, offset, done, i, j)
WriteState(acc, c, size, buf, offset, first, k, count) ==
    \E d \in Chunks(size), done \in Nat, left \in Nat, r \in Nat :
        WriteStateOf(acc, c, size, buf, offset, first, k, count, d, done, left, r)

\* The buffer goes to the chunks from `first` on, the last of which takes its end.
WriteSpan(c, size, buf, offset, first, count) ==
    LET last == first + count - 1
    IN  /\ last < Len(c)
        /\ Begin(last, size) < offset + Len(buf)
        /\ offset + Len(buf) <= Begin(last, size) + size

\* One chunk, copied into.
LEMMA CopyFacts ==
    ASSUME NEW size \in Nat, NEW slice \in [1..size -> Byte], NEW buf \in Seq(Byte),
           NEW at \in Nat, NEW from \in Nat, NEW n \in Nat, from + n <= Len(buf)
    PROVE  /\ CopyInto(slice, at, buf, from, n) \in [1..size -> Byte]
           /\ \A j \in 1..size : CopyInto(slice, at, buf, from, n)[j] =
                 IF at < j /\ j <= at + n THEN buf[j - at + from] ELSE slice[j]
  <1>1. ASSUME NEW j \in 1..size, at < j, j <= at + n
        PROVE  buf[j - at + from] \in Byte
    <2>1. Len(buf) \in Nat /\ j - at + from \in 1..Len(buf)
      BY <1>1, LenProperties
    <2>. QED  BY <2>1, ElementOfSeq
  <1>. QED  BY <1>1 DEF CopyInto

\* An iteration of write's loop.
LEMMA WriteChunkStep ==
    ASSUME NEW size \in Nat \ {0}, NEW c \in Chunks(size), NEW buf \in Seq(Byte),
           NEW offset \in Nat, NEW first \in Nat, NEW count \in Nat, NEW k \in Nat, k < count,
           WriteSpan(c, size, buf, offset, first, count),
           NEW acc, WriteState(acc, c, size, buf, offset, first, k, count)
    PROVE  WriteState(WriteChunk(acc, first + k), c, size, buf, offset, first, k + 1, count)
  <1>1. PICK d \in Chunks(size), done \in Nat, left \in Nat, r \in Nat :
          /\ acc = [chunks |-> d, chunk_size |-> size, buf |-> buf,
                    offset |-> done, size |-> left, remaining_idx |-> r]
          /\ done + left = Len(buf)
          /\ left > 0 /\ r < size /\ offset + done = Begin(first + k, size) + r
          /\ Len(d) = Len(c)
          /\ \A i \in 1..Len(c), j \in 1..size : d[i][j] = Put(c, size, buf, offset, done, i, j)
    BY DEF WriteState, WriteStateOf
  <1>2. PICK idx \in Nat, last \in Nat, len \in Nat :
          /\ idx = first + k /\ last = first + count - 1 /\ len = Len(buf)
          /\ last < Len(c) /\ Begin(last, size) < offset + len
          /\ offset + len <= Begin(last, size) + size
    <2>1. first + k \in Nat /\ first + count - 1 \in Nat
      OBVIOUS
    <2>2. Len(buf) \in Nat
      BY LenProperties
    <2>. QED  BY <2>1, <2>2 DEF WriteSpan
  <1>15. done + left = len /\ left > 0 /\ r < size
    BY <1>1, <1>2
  <1>3. PICK start \in Nat, end \in Nat : start = Begin(idx, size) /\ end = Begin(last, size)
    BY BeginFacts
  <1>16. end < offset + len /\ offset + len <= end + size /\ offset + done = start + r
    BY <1>1, <1>2, <1>3
  <1>4. PICK n \in Nat : n = Smaller(size - r, left) /\ n <= size - r /\ n <= left
    <2>1. Smaller(size - r, left) \in Nat
      BY <1>15 DEF Smaller
    <2>2. Smaller(size - r, left) <= size - r /\ Smaller(size - r, left) <= left
      BY <1>15 DEF Smaller
    <2>. QED  BY <2>1, <2>2
  <1>5. Len(c) \in Nat /\ Len(buf) \in Nat /\ idx + 1 \in 1..Len(c) /\ idx <= last
    BY <1>2, LenProperties DEF Chunks
  <1>6. PICK copied : copied = CopyInto(d[idx + 1], r, buf, done, n)
    OBVIOUS
  <1>7. /\ copied \in [1..size -> Byte]
        /\ \A j \in 1..size :
              copied[j] = IF r < j /\ j <= r + n THEN buf[j - r + done] ELSE d[idx + 1][j]
    <2>1. d[idx + 1] \in [1..size -> Byte]
      BY <1>1, <1>5, ElementOfSeq DEF Chunks
    <2>2. done + n <= Len(buf)
      BY <1>2, <1>4, <1>15
    <2>3. /\ CopyInto(d[idx + 1], r, buf, done, n) \in [1..size -> Byte]
          /\ \A j \in 1..size : CopyInto(d[idx + 1], r, buf, done, n)[j] =
                IF r < j /\ j <= r + n THEN buf[j - r + done] ELSE d[idx + 1][j]
      <3>1. PICK slice \in [1..size -> Byte] : slice = d[idx + 1]
        BY <2>1
      <3>2. /\ CopyInto(slice, r, buf, done, n) \in [1..size -> Byte]
            /\ \A j \in 1..size : CopyInto(slice, r, buf, done, n)[j] =
                  IF r < j /\ j <= r + n THEN buf[j - r + done] ELSE slice[j]
        BY <2>2, CopyFacts
      <3>. QED  BY <3>1, <3>2
    <2>. QED  BY <1>6, <2>3
  <1>8. PICK e : e = [d EXCEPT ![idx + 1] = copied]
    OBVIOUS
  <1>9. /\ e \in Chunks(size) /\ Len(e) = Len(c)
        /\ \A i \in 1..Len(c) : e[i] = IF i = idx + 1 THEN copied ELSE d[i]
    BY <1>1, <1>5, <1>7, <1>8, ExceptSeq DEF Chunks
  <1>10. WriteChunk(acc, idx) =
            [chunks |-> e, chunk_size |-> size, buf |-> buf,
             offset |-> done + n, size |-> left - n, remaining_idx |-> 0]
    <2>1. acc = [chunks |-> d, chunk_size |-> size, buf |-> buf,
                 offset |-> done, size |-> left, remaining_idx |-> r]
      BY <1>1
    <2>2. acc.chunks = d /\ acc.chunk_size = size /\ acc.buf = buf /\ acc.offset = done
          /\ acc.size = left /\ acc.remaining_idx = r
      BY <2>1
    <2>3. WriteChunk(acc, idx) =
            [acc EXCEPT !.chunks = [d EXCEPT ![idx + 1] = CopyInto(d[idx + 1], r, buf, done, n)],
                        !.offset = done + n, !.size = left - n, !.remaining_idx = 0]
      BY <1>4, <2>2 DEF WriteChunk
    <2>. QED  BY <1>6, <1>8, <2>1, <2>3
  <1>11. k + 1 < count =>
            left - n > 0 /\ 0 < size /\ offset + (done + n) = Begin(first + (k + 1), size) + 0
    <2>. SUFFICES ASSUME k + 1 < count
                  PROVE  left - n > 0 /\ offset + (done + n) = Begin(first + (k + 1), size)
      BY BeginFacts
    <2>1. first + (k + 1) = idx + 1 /\ idx < last
      BY <1>2
    <2>2. Begin(first + (k + 1), size) = start + size /\ start + size <= end
      BY <1>3, <2>1, BeginFacts
    <2>3. left > size - r
      BY <1>15, <1>16, <2>2
    <2>4. n = size - r
      BY <1>4, <1>15, <2>3 DEF Smaller
    <2>. QED  BY <1>15, <1>16, <2>2, <2>3, <2>4
  <1>12. k + 1 = count => left - n = 0
    <2>. SUFFICES ASSUME k + 1 = count
                  PROVE  left - n = 0
      OBVIOUS
    <2>1. idx = last /\ start = end
      BY <1>2, <1>3
    <2>2. left <= size - r
      BY <1>15, <1>16, <2>1
    <2>. QED  BY <1>15, <1>4, <2>2 DEF Smaller
  <1>13. ASSUME NEW i \in 1..Len(c), NEW j \in 1..size
         PROVE  e[i][j] = Put(c, size, buf, offset, done + n, i, j)
    <2>0. i - 1 \in Nat
      BY <1>5
    <2>1. PICK p \in Nat, b \in Nat : p = i - 1 /\ b = Begin(i - 1, size)
      BY <2>0, BeginFacts
    <2>2. PICK at \in Nat : at = b + j - 1
      BY <2>1
    <2>3. d[i][j] = IF offset <= at /\ at < offset + done THEN buf[at - offset + 1] ELSE c[i][j]
      BY <1>1, <2>1, <2>2 DEF Put
    <2>4. Put(c, size, buf, offset, done + n, i, j) =
            IF offset <= at /\ at < offset + (done + n) THEN buf[at - offset + 1] ELSE c[i][j]
      BY <2>1, <2>2 DEF Put
    <2>6. CASE i = idx + 1
      <3>1. b = start
        BY <1>3, <2>1, <2>6
      <3>2. e[i][j] = IF r < j /\ j <= r + n THEN buf[j - r + done] ELSE d[i][j]
        BY <1>7, <1>9, <2>6
      <3>3. CASE r < j /\ j <= r + n
        <4>1. j - r + done = at - offset + 1 /\ offset <= at /\ at < offset + (done + n)
          BY <2>2, <1>16, <3>1, <3>3
        <4>. QED  BY <2>4, <3>2, <3>3, <4>1
      <3>4. CASE ~(r < j /\ j <= r + n)
        <4>1. at < offset + (done + n) <=> at < offset + done
          BY <2>2, <1>16, <3>1, <3>4
        <4>. QED  BY <2>3, <2>4, <3>2, <3>4, <4>1
      <3>. QED  BY <3>3, <3>4
    <2>7. CASE i # idx + 1
      <3>1. e[i][j] = d[i][j]
        BY <1>9, <2>7
      <3>2. b + size <= start \/ start + size <= b
        <4>1. p < idx \/ idx < p
          BY <2>1, <2>7
        <4>. QED  BY <1>3, <2>1, <4>1, BeginFacts
      <3>3. at < offset + (done + n) <=> at < offset + done
        BY <1>15, <1>4, <2>2, <1>16, <3>2
      <3>. QED  BY <2>3, <2>4, <3>1, <3>3
    <2>. QED  BY <2>6, <2>7
  <1>14. done + n \in Nat /\ left - n \in Nat /\ (done + n) + (left - n) = Len(buf)
    <2>1. done + n \in Nat /\ left - n \in Nat /\ (done + n) + (left - n) = len
      BY <1>4, <1>15
    <2>. QED  BY <1>2, <2>1
  <1>. QED
    <2>. DEFINE acc2 == WriteChunk(acc, first + k)
    <2>1. acc2 = [chunks |-> e, chunk_size |-> size, buf |-> buf,
                  offset |-> done + n, size |-> left - n, remaining_idx |-> 0]
      BY <1>2, <1>10
    <2>. HIDE DEF acc2
    <2>2. WriteStateOf(acc2, c, size, buf, offset, first, k + 1, count, e, done + n, left - n, 0)
      BY <1>9, <1>11, <1>12, <1>13, <1>14, <2>1 DEF WriteStateOf
    <2>3. WriteState(acc2, c, size, buf, offset, first, k + 1, count)
      BY <1>9, <1>14, <2>2 DEF WriteState
    <2>. QED  BY <2>3 DEF acc2

\* The bytes from the offset on are the buffer's, the others are what they were.
IsWritten(w, c, size, buf, offset) ==
    /\ w \in Chunks(size) /\ Len(w) = Len(c)
    /\ \A i \in 1..Len(c), j \in 1..size : w[i][j] = Put(c, size, buf, offset, Len(buf), i, j)

\* What write's loop computes.
LEMMA WriteLoopWrites ==
    ASSUME NEW size \in Nat \ {0}, NEW c \in Chunks(size), NEW buf \in Seq(Byte), Len(buf) > 0,
           NEW offset \in Nat, NEW first \in Nat, NEW r \in Nat, r < size,
           offset = Begin(first, size) + r,
           NEW count \in Nat \ {0}, WriteSpan(c, size, buf, offset, first, count),
           NEW acc, acc = [chunks |-> c, chunk_size |-> size, buf |-> buf, offset |-> 0,
                           size |-> Len(buf), remaining_idx |-> r]
    PROVE  IsWritten(WriteLoop(acc, first, count).chunks, c, size, buf, offset)
  <1>1. PICK f : WriteTrace(f, acc, first, count)
    <2>1. count \in Nat
      OBVIOUS
    <2>. QED  BY <2>1, WriteLoopFacts
  <1>. DEFINE State(k) == WriteState(f[k], c, size, buf, offset, first, k, count)
              T == {k \in Nat : k <= count => State(k)}
  <1>2. 0 \in T
    <2>1. Len(buf) \in Nat /\ Len(c) \in Nat
      BY LenProperties DEF Chunks
    <2>2. ASSUME NEW i \in 1..Len(c), NEW j \in 1..size
          PROVE  c[i][j] = Put(c, size, buf, offset, 0, i, j)
      <3>1. i - 1 \in Nat
        BY <2>1
      <3>2. PICK b \in Nat : b = Begin(i - 1, size)
        BY <3>1, BeginFacts
      <3>3. ~(offset <= b + j - 1 /\ b + j - 1 < offset + 0)
        OBVIOUS
      <3>. QED  BY <3>2, <3>3 DEF Put
    <2>3. 0 + Len(buf) = Len(buf) /\ offset + 0 = Begin(first + 0, size) + r
      BY <2>1
    <2>4. WriteStateOf(acc, c, size, buf, offset, first, 0, count, c, 0, Len(buf), r)
      BY <2>2, <2>3 DEF WriteStateOf
    <2>5. WriteState(acc, c, size, buf, offset, first, 0, count)
      BY <2>1, <2>4 DEF WriteState
    <2>. QED  BY <1>1, <2>5 DEF WriteTrace
  <1>3. ASSUME NEW k \in Nat, k \in T
        PROVE  k + 1 \in T
    <2>. SUFFICES ASSUME k + 1 <= count
                  PROVE  State(k + 1)
      OBVIOUS
    <2>1. k < count /\ State(k)
      BY <1>3
    <2>2. WriteState(WriteChunk(f[k], first + k), c, size, buf, offset, first, k + 1, count)
      BY <2>1, WriteChunkStep
    <2>. QED  BY <1>1, <2>1, <2>2 DEF WriteTrace
  <1>. HIDE DEF T
  <1>4. count \in T
    BY <1>2, <1>3, NumbersInduction
  <1>5. State(count)
    BY <1>4 DEF T
  <1>6. PICK d \in Chunks(size), done \in Nat, left \in Nat, rest \in Nat :
          WriteStateOf(f[count], c, size, buf, offset, first, count, count, d, done, left, rest)
    BY <1>5 DEF WriteState
  <1>7. f[count].chunks = d /\ left = 0 /\ done + left = Len(buf) /\ Len(d) = Len(c)
    BY <1>6 DEF WriteStateOf
  <1>8. done = Len(buf)
    BY <1>7
  <1>9. \A i \in 1..Len(c), j \in 1..size : d[i][j] = Put(c, size, buf, offset, done, i, j)
    BY <1>6 DEF WriteStateOf
  <1>. QED  BY <1>1, <1>7, <1>8, <1>9 DEF IsWritten, WriteTrace

\* A write puts the whole buffer at its offset, and nothing else.
LEMMA WrittenFacts ==
    ASSUME NEW size \in Nat \ {0}, NEW c \in Chunks(size), NEW buf \in Seq(Byte), Len(buf) > 0,
           NEW offset \in Nat, ChunksFor(offset + Len(buf), size) <= Len(c)
    PROVE  IsWritten(Written(c, size, buf, offset), c, size, buf, offset)
  <1>1. PICK len \in Nat, n \in Nat : len = Len(buf) /\ n = Len(c) /\ len > 0
    BY LenProperties DEF Chunks
  <1>2. PICK first \in Nat, r \in Nat : /\ first = offset \div size /\ r = offset % size /\ r < size
                                         /\ offset = Begin(first, size) + r
    BY DivisionFacts
  <1>3. PICK last \in Nat : /\ last = (offset + Len(buf) - 1) \div size /\ last + 1 <= n
                            /\ Begin(last, size) \in Nat
                            /\ Begin(last, size) < offset + len
                            /\ offset + len <= Begin(last, size) + size
    <2>1. PICK end \in Nat \ {0} : end = offset + len
      BY <1>1
    <2>2. PICK p \in Nat : /\ ChunksFor(end, size) = p + 1
                           /\ p = (end - 1) \div size /\ Begin(p, size) \in Nat
                           /\ Begin(p, size) < end /\ end <= Begin(p, size) + size
      BY ChunksForFacts
    <2>. QED  BY <1>1, <2>1, <2>2
  <1>4. Begin(first, size) \in Nat
    BY BeginFacts
  <1>5. first <= last
    <2>1. Begin(first, size) < Begin(last, size) + size
      <3>1. PICK x \in Nat, y \in Nat : x = Begin(first, size) /\ y = Begin(last, size)
        BY <1>3, <1>4
      <3>2. offset = x + r /\ offset + len <= y + size
        BY <1>2, <1>3, <3>1
      <3>3. x < y + size
        BY <1>1, <3>2
      <3>. QED  BY <3>1, <3>3
    <2>. QED  BY <2>1, BeginOrder
  <1>6. CASE size = Len(buf) /\ offset % size = 0
    <2>1. Written(c, size, buf, offset) = [c EXCEPT ![first + 1] = buf]
      BY <1>2, <1>6 DEF Written
    <2>2. buf \in [1..size -> Byte] /\ first + 1 \in 1..Len(c)
      BY <1>1, <1>3, <1>5, <1>6, LenProperties
    <2>3. PICK w : w = [c EXCEPT ![first + 1] = buf]
      OBVIOUS
    <2>4. /\ w \in Chunks(size) /\ Len(w) = Len(c)
          /\ \A i \in 1..Len(c) : w[i] = IF i = first + 1 THEN buf ELSE c[i]
      BY <2>2, <2>3, ExceptSeq DEF Chunks
    <2>5. ASSUME NEW i \in 1..Len(c), NEW j \in 1..size
          PROVE  w[i][j] = Put(c, size, buf, offset, Len(buf), i, j)
      <3>1. PICK p \in Nat, b \in Nat : p = i - 1 /\ b = Begin(i - 1, size)
        <4>1. i - 1 \in Nat
          BY <1>1
        <4>. QED  BY <4>1, BeginFacts
      <3>2. PICK at \in Nat : at = b + j - 1
        BY <3>1
      <3>3. Put(c, size, buf, offset, Len(buf), i, j) =
              IF offset <= at /\ at < offset + size THEN buf[at - offset + 1] ELSE c[i][j]
        BY <1>6, <3>1, <3>2 DEF Put
      <3>4. offset = Begin(first, size)
        BY <1>2, <1>4, <1>6
      <3>5. CASE i = first + 1
        <4>1. b = offset
          BY <3>1, <3>4, <3>5
        <4>2. offset <= at /\ at < offset + size /\ at - offset + 1 = j
          BY <3>2, <4>1
        <4>. QED  BY <2>4, <3>3, <3>5, <4>2
      <3>6. CASE i # first + 1
        <4>1. p < first \/ first < p
          BY <3>1, <3>6
        <4>2. b + size <= offset \/ offset + size <= b
          BY <3>1, <3>4, <4>1, BeginFacts
        <4>3. ~(offset <= at /\ at < offset + size)
          BY <3>2, <4>2
        <4>. QED  BY <2>4, <3>3, <3>6, <4>3
      <3>. QED  BY <3>5, <3>6
    <2>. QED  BY <2>1, <2>3, <2>4, <2>5 DEF IsWritten
  <1>7. CASE ~(size = Len(buf) /\ offset % size = 0)
    <2>1. PICK count \in Nat \ {0} : count = last - first + 1
      BY <1>5
    <2>2. PICK acc : acc = [chunks |-> c, chunk_size |-> size, buf |-> buf, offset |-> 0,
                            size |-> Len(buf), remaining_idx |-> r]
      OBVIOUS
    <2>3. Written(c, size, buf, offset) = WriteLoop(acc, first, count).chunks
      BY <1>2, <1>3, <1>7, <2>1, <2>2 DEF Written
    <2>4. first + count - 1 = last /\ last < Len(c)
      BY <1>1, <1>3, <2>1
    <2>5. WriteSpan(c, size, buf, offset, first, count)
      BY <1>1, <1>3, <2>4 DEF WriteSpan
    <2>6. r < size /\ offset = Begin(first, size) + r /\ Len(buf) > 0
      BY <1>1, <1>2
    <2>7. IsWritten(WriteLoop(acc, first, count).chunks, c, size, buf, offset)
      BY <2>2, <2>5, <2>6, WriteLoopWrites
    <2>. QED  BY <2>3, <2>7
  <1>. QED  BY <1>6, <1>7

-----------------------------------------------------------------------------
(* The inductive invariant *)

ChunkSizeOK == chunk_size \in (Nat \ {0}) \cup {Unsized}

ChunkInv == ChunkSizeOK /\ ChunksFitTheFile /\ AllocatedTailIsZero

\* The byte at a position: the file's, or zero behind its end.
ByteAt(at) == IF at < file_size THEN Cell(at) ELSE 0

\* The chunks a file needs reach its end.
LEMMA NeededFacts ==
    ASSUME NEW size \in Nat \ {0}, NEW len \in Nat,
           NEW n, n = IF len = 0 THEN 0 ELSE ChunksFor(len, size)
    PROVE  n \in Nat /\ Begin(n, size) \in Nat /\ len <= Begin(n, size)
  <1>1. CASE len = 0
    BY <1>1, BeginFacts
  <1>2. CASE len # 0
    <2>1. PICK end \in Nat \ {0} : end = len
      BY <1>2
    <2>2. PICK p \in Nat : ChunksFor(end, size) = p + 1 /\ end <= Begin(p, size) + size
      BY ChunksForFacts
    <2>3. Begin(p + 1, size) = Begin(p, size) + size /\ Begin(p, size) \in Nat
      BY BeginFacts
    <2>. QED  BY <1>2, <2>1, <2>2, <2>3
  <1>. QED  BY <1>1, <1>2

\* A file's chunks reach its end.
LEMMA ReachFacts ==
    ASSUME ChunkInv, chunk_size # Unsized
    PROVE  /\ chunk_size \in Nat \ {0} /\ file_size \in Nat /\ chunks \in Chunks(chunk_size)
           /\ Len(chunks) \in Nat /\ Begin(Len(chunks), chunk_size) \in Nat
           /\ file_size <= Begin(Len(chunks), chunk_size)
  <1>1. /\ chunk_size \in Nat \ {0} /\ file_size \in Nat /\ chunks \in Chunks(chunk_size)
        /\ Len(chunks) = IF file_size = 0 THEN 0 ELSE ChunksFor(file_size, chunk_size)
    BY AddressSpaceAssumption DEF ChunkInv, ChunkSizeOK, ChunksFitTheFile, Chunks
  <1>. QED  BY <1>1, NeededFacts

\* A cell by its chunk.
LEMMA CellFacts ==
    ASSUME chunk_size \in Nat \ {0}, NEW p \in Nat, NEW r \in Nat, r < chunk_size
    PROVE  Cell(Begin(p, chunk_size) + r) = chunks[p + 1][r + 1]
  BY DivisionIsUnique DEF Cell

\* The chunks hold the file, then zeros; where there is no chunk there is no file.
LEMMA ChunksHoldTheFile ==
    ASSUME ChunkInv, chunk_size # Unsized, NEW p \in Nat, NEW r \in Nat, r < chunk_size,
           NEW at \in 0..AddressSpace, at = Begin(p, chunk_size) + r
    PROVE  ByteAt(at) = IF p < Len(chunks) THEN chunks[p + 1][r + 1] ELSE 0
  <1>1. PICK size \in Nat \ {0}, len \in Nat, end \in Nat, n \in Nat :
          /\ size = chunk_size /\ len = file_size /\ n = Len(chunks)
          /\ end = Begin(n, size) /\ len <= end
    BY ReachFacts
  <1>2. PICK b \in Nat : b = Begin(p, size) /\ at = b + r
    BY <1>1, BeginFacts
  <1>3. Cell(at) = chunks[p + 1][r + 1]
    BY <1>1, CellFacts
  <1>4. CASE p < n
    <2>1. b + size <= end
      BY <1>1, <1>2, <1>4, BeginFacts
    <2>2. at < end
      BY <1>1, <1>2, <2>1
    <2>3. CASE len <= at
      <3>1. at < Len(chunks) * chunk_size
        BY <1>1, <2>2 DEF Begin
      <3>2. Cell(at) = 0
        BY <1>1, <2>3, <3>1 DEF ChunkInv, AllocatedTailIsZero
      <3>. QED  BY <1>1, <1>3, <1>4, <2>3, <3>2 DEF ByteAt
    <2>4. CASE at < len
      BY <1>1, <1>3, <1>4, <2>4 DEF ByteAt
    <2>. QED  BY <2>3, <2>4
  <1>5. CASE ~(p < n)
    <2>1. end <= b
      <3>1. CASE p = n
        BY <1>1, <1>2, <3>1
      <3>2. CASE n < p
        <4>1. end + size <= b
          BY <1>1, <1>2, <3>2, BeginFacts
        <4>. QED  BY <4>1
      <3>. QED  BY <1>5, <3>1, <3>2
    <2>2. ~(at < len)
      BY <1>1, <1>2, <2>1
    <2>. QED  BY <1>1, <1>5, <2>2 DEF ByteAt
  <1>. QED  BY <1>4, <1>5

\* The chunks are those of a file of some size.
Fitting ==
    /\ chunk_size \in Nat \ {0} /\ file_size \in 0..AddressSpace
    /\ chunks \in Chunks(chunk_size)
    /\ Len(chunks) = IF file_size = 0 THEN 0 ELSE ChunksFor(file_size, chunk_size)

\* The chunks hold the bytes given for every position.
Holding(byte) ==
    \A at \in 0..AddressSpace, p \in Nat, r \in Nat :
        at = Begin(p, chunk_size) + r /\ r < chunk_size /\ p < Len(chunks) =>
            chunks[p + 1][r + 1] = byte[at]

\* Fitting chunks with given bytes, zeros behind the end, are a file of those bytes.
LEMMA HoldingIsEnough ==
    ASSUME NEW byte, Fitting', Holding(byte)',
           \A at \in 0..AddressSpace : file_size' <= at => byte[at] = 0
    PROVE  ChunkInv' /\ Contents' = [i \in 1..file_size' |-> byte[i - 1]]
  <1>1. chunk_size' # Unsized /\ ChunkSizeOK' /\ ChunksFitTheFile'
    BY ChunkSizeAssumption DEF Fitting, ChunkSizeOK, ChunksFitTheFile, Chunks
  <1>2. PICK size \in Nat \ {0}, len \in Nat, n \in Nat :
          /\ size = chunk_size' /\ len = file_size' /\ n = Len(chunks')
          /\ n = IF len = 0 THEN 0 ELSE ChunksFor(len, size)
    <2>1. chunk_size' \in Nat \ {0} /\ file_size' \in Nat
      BY AddressSpaceAssumption DEF Fitting
    <2>2. Len(chunks') \in Nat
      BY LenProperties DEF Fitting, Chunks
    <2>. QED  BY <2>1, <2>2 DEF Fitting
  <1>3. PICK end \in Nat : end = Begin(n, size)
    BY BeginFacts
  <1>4. ASSUME NEW at \in 0..AddressSpace, at < end
        PROVE  Cell(at)' = byte[at]
    <2>1. PICK p \in Nat, r \in Nat : at = Begin(p, size) + r /\ r < size
      <3>1. at \in Nat
        BY AddressSpaceAssumption
      <3>. QED  BY <3>1, DivisionFacts
    <2>2. p < n
      <3>1. PICK b \in Nat : b = Begin(p, size) /\ at = b + r
        BY <2>1, BeginFacts
      <3>2. CASE n <= p
        <4>1. end <= b
          <5>1. CASE n = p
            BY <1>3, <3>1, <5>1
          <5>2. CASE n < p
            <6>1. end + size <= b
              BY <1>3, <3>1, <5>2, BeginFacts
            <6>. QED  BY <6>1
          <5>. QED  BY <3>2, <5>1, <5>2
        <4>. QED  BY <1>4, <3>1, <4>1
      <3>. QED  BY <3>2
    <2>3. Cell(at)' = chunks'[p + 1][r + 1]
      BY <1>2, <2>1, DivisionIsUnique DEF Cell
    <2>. QED  BY <1>2, <2>1, <2>2, <2>3 DEF Holding
  <1>5. AllocatedTailIsZero'
    <2>. SUFFICES ASSUME NEW at \in 0..AddressSpace, file_size' <= at, at < Len(chunks') * chunk_size'
                  PROVE  Cell(at)' = 0
      BY DEF AllocatedTailIsZero
    <2>1. at < end
      BY <1>2, <1>3 DEF Begin
    <2>. QED  BY <1>4, <2>1
  <1>6. ChunkInv'
    BY <1>1, <1>5 DEF ChunkInv
  <1>7. len <= end
    BY <1>2, <1>3, NeededFacts
  <1>8. ASSUME NEW i \in 1..file_size'
        PROVE  Cell(i - 1)' = byte[i - 1]
    <2>1. i - 1 \in 0..AddressSpace /\ i - 1 < end
      BY <1>2, <1>7, AddressSpaceAssumption DEF Fitting
    <2>. QED  BY <1>4, <2>1
  <1>. QED  BY <1>6, <1>8 DEF Contents

-----------------------------------------------------------------------------
(* The steps *)

\* The chunks a write of some chunk size finds, and the bytes in them.
LEMMA WriteFinds ==
    ASSUME ChunkInv, NEW buf \in Buffers, NEW size, size = ChunkSizeFor(buf)
    PROVE  /\ size \in Nat \ {0} /\ file_size \in 0..AddressSpace /\ chunks \in Chunks(size)
           /\ Len(chunks) = IF file_size = 0 THEN 0 ELSE ChunksFor(file_size, size)
           /\ \A at \in 0..AddressSpace, p \in Nat, r \in Nat :
                at = Begin(p, size) + r /\ r < size =>
                    ByteAt(at) = IF p < Len(chunks) THEN chunks[p + 1][r + 1] ELSE 0
  <1>1. CASE chunk_size = Unsized
    <2>1. file_size = 0 /\ chunks = <<>> /\ size = Len(buf) /\ file_size \in 0..AddressSpace
      BY <1>1 DEF ChunkInv, ChunksFitTheFile, ChunkSizeFor
    <2>2. size \in Nat \ {0}
      BY <2>1, BufferAssumption, EmptySeq, LenProperties
    <2>3. chunks \in Chunks(size) /\ Len(chunks) = 0
      BY <2>1, EmptySeq DEF Chunks
    <2>4. ASSUME NEW at \in 0..AddressSpace
          PROVE  ByteAt(at) = 0
      BY <2>1, AddressSpaceAssumption DEF ByteAt
    <2>. QED  BY <2>1, <2>2, <2>3, <2>4
  <1>2. CASE chunk_size # Unsized
    <2>1. size = chunk_size
      BY <1>2 DEF ChunkSizeFor
    <2>2. /\ file_size \in 0..AddressSpace
          /\ Len(chunks) = IF file_size = 0 THEN 0 ELSE ChunksFor(file_size, size)
      BY <1>2, <2>1 DEF ChunkInv, ChunksFitTheFile
    <2>. QED  BY <1>2, <2>1, <2>2, ReachFacts, ChunksHoldTheFile
  <1>. QED  BY <1>1, <1>2

\* The chunks and, behind them, k chunks of zeros.
IsGrown(g, k, size) ==
    /\ g \in Chunks(size) /\ Len(g) = Len(chunks) + k
    /\ \A i \in 1..Len(g), j \in 1..size :
          g[i][j] = IF i <= Len(chunks) THEN chunks[i][j] ELSE 0

\* What a write's allocations leave when they all succeed.
LEMMA GrownFacts ==
    ASSUME NEW size \in Nat \ {0}, chunks \in Chunks(size), NEW k \in Nat
    PROVE  IsGrown(Grown(k, size), k, size)
  <1>. DEFINE g == Grown(k, size)
  <1>1. PICK z : z = [i \in 1..k |-> ZeroChunk(size)]
    OBVIOUS
  <1>2. ZeroChunk(size) \in [1..size -> Byte] /\ \A j \in 1..size : ZeroChunk(size)[j] = 0
    BY ByteAssumption DEF ZeroChunk
  <1>3. z \in Chunks(size) /\ Len(z) = k /\ \A i \in 1..k : z[i] = ZeroChunk(size)
    BY <1>1, <1>2, IsASeq DEF Chunks
  <1>4. g = chunks \o z
    BY <1>1 DEF Grown
  <1>. HIDE DEF g
  <1>5. /\ g \in Chunks(size) /\ Len(g) = Len(chunks) + Len(z) /\ Len(chunks) \in Nat
        /\ \A i \in 1..(Len(chunks) + Len(z)) :
              g[i] = IF i <= Len(chunks) THEN chunks[i] ELSE z[i - Len(chunks)]
    BY <1>3, <1>4, ConcatProperties, LenProperties DEF Chunks
  <1>6. ASSUME NEW i \in 1..Len(g), NEW j \in 1..size
        PROVE  g[i][j] = IF i <= Len(chunks) THEN chunks[i][j] ELSE 0
    <2>1. CASE i <= Len(chunks)
      BY <1>3, <1>5, <2>1
    <2>2. CASE ~(i <= Len(chunks))
      <3>1. i - Len(chunks) \in 1..k
        BY <1>3, <1>5, <2>2
      <3>2. g[i] = ZeroChunk(size)
        BY <1>3, <1>5, <2>2, <3>1
      <3>. QED  BY <1>2, <2>2, <3>2
    <2>. QED  BY <2>1, <2>2
  <1>7. IsGrown(g, k, size)
    BY <1>3, <1>5, <1>6 DEF IsGrown
  <1>. QED  BY <1>7 DEF g

\* A byte that is not the file's is zero, and the file's contents are its bytes.
LEMMA ContentsFacts ==
    ASSUME ChunkInv
    PROVE  /\ file_size \in 0..AddressSpace /\ file_size \in Nat
           /\ Contents = [i \in 1..file_size |-> ByteAt(i - 1)] /\ Len(Contents) = file_size
           /\ \A at \in 0..AddressSpace : file_size <= at => ByteAt(at) = 0
  <1>1. file_size \in 0..AddressSpace /\ file_size \in Nat
    BY AddressSpaceAssumption DEF ChunkInv, ChunksFitTheFile
  <1>2. ASSUME NEW i \in 1..file_size
        PROVE  ByteAt(i - 1) = Cell(i - 1)
    BY <1>1 DEF ByteAt
  <1>3. ASSUME NEW at \in 0..AddressSpace, file_size <= at
        PROVE  ByteAt(at) = 0
    BY <1>1, <1>3, AddressSpaceAssumption DEF ByteAt
  <1>. QED  BY <1>1, <1>2, <1>3 DEF Contents

\* How many chunks there are after a write.
LEMMA WriteFits ==
    ASSUME NEW size \in Nat \ {0}, NEW len \in Nat, NEW end \in Nat \ {0}, NEW n \in Nat,
           n = IF len = 0 THEN 0 ELSE ChunksFor(len, size)
    PROVE  /\ Larger(0, ChunksFor(end, size) - n) \in Nat
           /\ ChunksFor(end, size) <= n + Larger(0, ChunksFor(end, size) - n)
           /\ n + Larger(0, ChunksFor(end, size) - n) = ChunksFor(Larger(len, end), size)
  <1>1. PICK need \in Nat \ {0} : need = ChunksFor(end, size)
    BY ChunksForFacts
  <1>2. CASE len = 0
    <2>1. Larger(len, end) = end
      BY <1>2 DEF Larger
    <2>. QED  BY <1>1, <1>2, <2>1 DEF Larger
  <1>3. CASE len # 0 /\ len <= end
    <2>1. n <= need /\ Larger(len, end) = end
      BY <1>1, <1>3, ChunksForOrder DEF Larger
    <2>. QED  BY <1>1, <2>1 DEF Larger
  <1>4. CASE end < len
    <2>1. need <= n /\ Larger(len, end) = len /\ len # 0
      BY <1>1, <1>4, ChunksForOrder DEF Larger
    <2>. QED  BY <1>1, <2>1 DEF Larger
  <1>. QED  BY <1>2, <1>3, <1>4

\* A write.
LEMMA WriteStep ==
    ASSUME ChunkInv, NEW buf \in Buffers, NEW offset \in 0..AddressSpace, Write(buf, offset)
    PROVE  ChunkInv' /\ Contents' = Flat!Overlaid(Contents, buf, offset)
  <1>1. PICK size \in Nat \ {0} :
          /\ size = ChunkSizeFor(buf) /\ chunks \in Chunks(size)
          /\ Len(chunks) = IF file_size = 0 THEN 0 ELSE ChunksFor(file_size, size)
          /\ \A at \in 0..AddressSpace, p \in Nat, r \in Nat :
               at = Begin(p, size) + r /\ r < size =>
                   ByteAt(at) = IF p < Len(chunks) THEN chunks[p + 1][r + 1] ELSE 0
    BY WriteFinds
  <1>2. PICK len \in Nat, n \in Nat : len = file_size /\ n = Len(chunks)
    <2>1. Len(chunks) \in Nat
      BY <1>1, LenProperties DEF Chunks
    <2>. QED  BY <2>1, ContentsFacts
  <1>3. buf \in Seq(Byte) /\ Len(buf) \in Nat /\ Len(buf) > 0 /\ offset \in Nat
    BY BufferAssumption, AddressSpaceAssumption, EmptySeq, LenProperties
  <1>4. PICK end \in Nat \ {0} : end = offset + Len(buf) /\ end <= AddressSpace
    BY <1>3 DEF Write
  <1>5. PICK new \in Nat : /\ new = NewChunks(buf, offset)
                           /\ ChunksFor(end, size) <= n + new
                           /\ n + new = ChunksFor(Larger(len, end), size)
    <2>1. n = IF len = 0 THEN 0 ELSE ChunksFor(len, size)
      BY <1>1, <1>2
    <2>2. NewChunks(buf, offset) = Larger(0, ChunksFor(end, size) - n)
      BY <1>1, <1>2, <1>4 DEF NewChunks
    <2>. QED  BY <2>1, <2>2, WriteFits
  <1>6. PICK g \in Chunks(size) :
          /\ g = Grown(new, size) /\ Len(g) = n + new
          /\ \A i \in 1..Len(g), j \in 1..size :
                g[i][j] = IF i <= n THEN chunks[i][j] ELSE 0
    <2>1. IsGrown(Grown(new, size), new, size)
      BY <1>1, GrownFacts
    <2>. QED  BY <1>2, <2>1 DEF IsGrown
  <1>7. IsWritten(Written(g, size, buf, offset), g, size, buf, offset)
    <2>1. ChunksFor(offset + Len(buf), size) <= Len(g)
      BY <1>4, <1>5, <1>6
    <2>. QED  BY <1>3, <2>1, WrittenFacts
  <1>8. /\ chunks' = Written(g, size, buf, offset) /\ chunk_size' = size
        /\ file_size' = Larger(len, end)
    BY <1>1, <1>2, <1>4, <1>5, <1>6 DEF Write
  <1>9. /\ Larger(len, end) \in Nat \ {0} /\ Larger(len, end) <= AddressSpace
        /\ end <= Larger(len, end) /\ len <= Larger(len, end)
        /\ Larger(len, end) = IF end > len THEN end ELSE len
    BY <1>2, <1>4, ContentsFacts, AddressSpaceAssumption DEF Larger
  <1>10. Fitting'
    <2>1. chunks' \in Chunks(size) /\ Len(chunks') = n + new
      BY <1>6, <1>7, <1>8 DEF IsWritten
    <2>2. file_size' \in 0..AddressSpace /\ file_size' # 0
      BY <1>8, <1>9, AddressSpaceAssumption
    <2>3. Len(chunks') = ChunksFor(file_size', size)
      BY <1>5, <1>8, <2>1
    <2>. QED  BY <1>8, <2>1, <2>2, <2>3 DEF Fitting
  <1>11. PICK byte : byte = [at \in 0..AddressSpace |->
              IF offset <= at /\ at < end THEN buf[at - offset + 1] ELSE ByteAt(at)]
    OBVIOUS
  <1>12. Holding(byte)'
    <2>. SUFFICES ASSUME NEW at \in 0..AddressSpace, NEW p \in Nat, NEW r \in Nat,
                         at = Begin(p, size) + r, r < size, p < Len(chunks')
                  PROVE  chunks'[p + 1][r + 1] = byte[at]
      BY <1>8 DEF Holding
    <2>1. Len(chunks') = n + new /\ p + 1 \in 1..(n + new) /\ r + 1 \in 1..size
      BY <1>6, <1>7, <1>8 DEF IsWritten
    <2>2. chunks'[p + 1][r + 1] = Put(g, size, buf, offset, Len(buf), p + 1, r + 1)
      BY <1>6, <1>7, <1>8, <2>1 DEF IsWritten
    <2>3. Begin(p, size) \in Nat /\ p + 1 - 1 = p /\ Begin(p, size) + (r + 1) - 1 = at
      BY BeginFacts
    <2>4. Put(g, size, buf, offset, Len(buf), p + 1, r + 1) =
            IF offset <= at /\ at < end THEN buf[at - offset + 1] ELSE g[p + 1][r + 1]
      BY <1>4, <2>3 DEF Put
    <2>5. g[p + 1][r + 1] = IF p < n THEN chunks[p + 1][r + 1] ELSE 0
      BY <1>6, <2>1
    <2>6. ByteAt(at) = IF p < n THEN chunks[p + 1][r + 1] ELSE 0
      BY <1>1, <1>2
    <2>. QED  BY <1>11, <2>2, <2>4, <2>5, <2>6
  <1>13. ASSUME NEW at \in 0..AddressSpace, file_size' <= at
         PROVE  byte[at] = 0
    <2>1. ~(at < end) /\ len <= at
      BY <1>8, <1>9, <1>13, AddressSpaceAssumption
    <2>2. ByteAt(at) = 0
      BY <1>2, <2>1, ContentsFacts
    <2>. QED  BY <1>11, <2>1, <2>2
  <1>14. ChunkInv' /\ Contents' = [i \in 1..file_size' |-> byte[i - 1]]
    BY <1>10, <1>12, <1>13, HoldingIsEnough
  <1>15. ASSUME NEW i \in 1..file_size'
         PROVE  byte[i - 1] = IF offset < i /\ i <= end THEN buf[i - offset]
                              ELSE IF i <= len THEN Contents[i] ELSE 0
    <2>1. PICK at \in 0..AddressSpace : at = i - 1 /\ at + 1 = i
      BY <1>8, <1>9, AddressSpaceAssumption
    <2>2. byte[at] = IF offset < i /\ i <= end THEN buf[i - offset] ELSE ByteAt(at)
      <3>1. /\ offset <= at <=> offset < i
            /\ at < end <=> i <= end
            /\ at - offset + 1 = i - offset
        BY <1>3, <2>1, AddressSpaceAssumption
      <3>. QED  BY <1>11, <3>1
    <2>3. ByteAt(at) = IF i <= len THEN Contents[i] ELSE 0
      <3>1. CASE i <= len
        <4>1. i \in 1..file_size
          BY <1>2, <1>8, <1>9, <3>1
        <4>. QED  BY <2>1, <3>1, <4>1, ContentsFacts
      <3>2. CASE ~(i <= len)
        <4>1. file_size <= at
          BY <1>2, <1>8, <1>9, <2>1, <3>2, AddressSpaceAssumption
        <4>. QED  BY <3>2, <4>1, ContentsFacts
      <3>. QED  BY <3>1, <3>2
    <2>. QED  BY <2>1, <2>2, <2>3
  <1>16. Flat!Overlaid(Contents, buf, offset) =
           [i \in 1..file_size' |-> IF offset < i /\ i <= end THEN buf[i - offset]
                                    ELSE IF i <= len THEN Contents[i] ELSE 0]
    <2>1. Len(Contents) = len
      BY <1>2, ContentsFacts
    <2>. QED  BY <1>4, <1>8, <1>9, <2>1 DEF Flat!Overlaid
  <1>. QED  BY <1>14, <1>15, <1>16

\* A write that runs out of memory: the new chunks go.
LEMMA FailStep ==
    ASSUME ChunkInv, NEW buf \in Buffers, NEW offset \in 0..AddressSpace,
           NEW k \in 0..AddressSpace, WriteFails(buf, offset, k)
    PROVE  UNCHANGED vars
  <1>1. PICK size \in Nat \ {0} : size = ChunkSizeFor(buf) /\ chunks \in Chunks(size)
    BY WriteFinds
  <1>2. k \in Nat
    BY AddressSpaceAssumption
  <1>3. IsGrown(Grown(k, size), k, size)
    BY <1>1, <1>2, GrownFacts
  <1>4. PICK z : Grown(k, size) = chunks \o z /\ z \in Chunks(size)
    <2>1. ZeroChunk(size) \in [1..size -> Byte]
      BY ByteAssumption DEF ZeroChunk
    <2>2. [i \in 1..k |-> ZeroChunk(size)] \in Chunks(size)
      BY <1>2, <2>1, IsASeq DEF Chunks
    <2>. QED  BY <2>2 DEF Grown
  <1>5. SubSeq(chunks \o z, 1, Len(chunks)) = chunks
    <2>1. Len(chunks) \in Nat
      BY <1>1, LenProperties DEF Chunks
    <2>2. CASE Len(chunks) = 0
      <3>1. chunks = <<>>
        BY <1>1, <2>2, EmptySeq DEF Chunks
      <3>2. SubSeq(chunks \o z, 1, 0) = <<>>
        BY SubSeqEmpty
      <3>. QED  BY <2>2, <3>1, <3>2
    <2>3. CASE Len(chunks) # 0
      <3>1. SubSeq(chunks \o z, 1, Len(chunks)) = SubSeq(chunks, 1, Len(chunks))
        <4>1. 1 \in 1..Len(chunks) /\ Len(chunks) \in 1..Len(chunks)
          BY <2>1, <2>3
        <4>. QED  BY <1>1, <1>4, <4>1, SubSeqOfConcat1 DEF Chunks
      <3>2. SubSeq(chunks, 1, Len(chunks)) = chunks
        BY <1>1, SubSeqFull DEF Chunks
      <3>. QED  BY <3>1, <3>2
    <2>. QED  BY <2>2, <2>3
  <1>. QED  BY <1>1, <1>4, <1>5 DEF WriteFails, vars

\* Where the last byte of a file lies in its last chunk.
LEMMA LastChunkFacts ==
    ASSUME NEW size \in Nat \ {0}, NEW end \in Nat \ {0}, NEW p \in Nat,
           ChunksFor(end, size) = p + 1
    PROVE  /\ Begin(p, size) \in Nat /\ end % size \in Nat
           /\ end % size # 0 => end = Begin(p, size) + (end % size)
           /\ end % size = 0 => end = Begin(p, size) + size
  <1>1. PICK b \in Nat : b = Begin(p, size) /\ b < end /\ end <= b + size /\ p = (end - 1) \div size
    <2>1. PICK p2 \in Nat : /\ ChunksFor(end, size) = p2 + 1 /\ p2 = (end - 1) \div size
                            /\ Begin(p2, size) \in Nat
                            /\ Begin(p2, size) < end /\ end <= Begin(p2, size) + size
      BY ChunksForFacts
    <2>2. p2 = p
      BY <2>1
    <2>. QED  BY <2>1, <2>2
  <1>2. PICK q \in Nat, tail \in Nat : /\ q = end \div size /\ tail = end % size /\ tail < size
                                       /\ end = Begin(q, size) + tail
    <2>1. end \in Nat
      OBVIOUS
    <2>2. /\ end \div size \in Nat /\ end % size \in Nat /\ end % size < size
          /\ end = Begin(end \div size, size) + (end % size)
      BY <2>1, DivisionFacts
    <2>. QED  BY <2>2
  <1>3. PICK c \in Nat : c = Begin(q, size) /\ end = c + tail
    BY <1>2, BeginFacts
  <1>4. q < p => c + size <= b
    BY <1>1, <1>3, BeginFacts
  <1>5. p < q => b + size <= c
    BY <1>1, <1>3, BeginFacts
  <1>6. q = p => c = b
    BY <1>1, <1>3
  <1>7. q < p \/ q = p \/ p < q
    OBVIOUS
  <1>8. (tail # 0 => end = b + tail) /\ (tail = 0 => end = b + size)
    <2>1. b < end /\ end <= b + size
      BY <1>1
    <2>2. tail < size /\ end = c + tail
      BY <1>2, <1>3
    <2>. QED  BY <1>4, <1>5, <1>6, <1>7, <2>1, <2>2
  <1>. QED  BY <1>1, <1>2, <1>8

\* The cells that remain are those before the new end; behind it there are zeros.
IsShortened(s, cs, size) ==
    /\ s \in Chunks(cs) /\ Len(s) = IF size = 0 THEN 0 ELSE ChunksFor(size, cs)
    /\ \A at \in 0..AddressSpace, p \in Nat, r \in Nat :
          at = Begin(p, cs) + r /\ r < cs /\ p < Len(s) =>
              s[p + 1][r + 1] = IF at < size THEN ByteAt(at) ELSE 0

\* What truncate leaves of a file's chunks.
LEMMA ShortenedFacts ==
    ASSUME ChunkInv, chunk_size # Unsized, NEW size \in Nat, size <= file_size
    PROVE  IsShortened(Shortened(size), chunk_size, size)
  <1>1. PICK cs \in Nat \ {0}, len \in Nat, n \in Nat :
          cs = chunk_size /\ len = file_size /\ n = Len(chunks)
    BY ReachFacts
  <1>2. chunks \in Chunks(cs) /\ n = IF len = 0 THEN 0 ELSE ChunksFor(len, cs)
    BY <1>1 DEF ChunkInv, ChunksFitTheFile, Chunks
  <1>3. CASE size = 0
    <2>1. Shortened(size) = <<>>
      BY <1>3 DEF Shortened
    <2>2. <<>> \in Chunks(cs) /\ Len(<<>>) = 0
      BY EmptySeq DEF Chunks
    <2>. QED  BY <1>1, <1>3, <2>1, <2>2 DEF IsShortened
  <1>4. CASE size # 0
    <2>1. PICK last \in Nat : ChunksFor(size, cs) = last + 1
      BY <1>4, ChunksForFacts
    <2>2. last + 1 <= n /\ size <= len
      BY <1>1, <1>2, <1>4, <2>1, ChunksForOrder
    <2>3. PICK b \in Nat, tail \in Nat :
            /\ b = Begin(last, cs) /\ tail = size % cs
            /\ tail # 0 => size = b + tail
            /\ tail = 0 => size = b + cs
      BY <1>4, <2>1, LastChunkFacts
    <2>. DEFINE Cut(i) == IF i = last + 1 /\ size < len /\ tail # 0
                          THEN [j \in 1..cs |-> IF j <= tail THEN chunks[i][j] ELSE 0]
                          ELSE chunks[i]
    <2>4. PICK s : s = [i \in 1..(last + 1) |-> Cut(i)]
      OBVIOUS
    <2>5. Shortened(size) = s
      BY <1>1, <1>4, <2>1, <2>3, <2>4 DEF Shortened
    <2>6. ASSUME NEW i \in 1..(last + 1)
          PROVE  Cut(i) \in [1..cs -> Byte]
      <3>1. i \in 1..Len(chunks)
        BY <1>1, <2>2
      <3>2. chunks[i] \in [1..cs -> Byte]
        BY <1>2, <3>1, ElementOfSeq DEF Chunks
      <3>. QED  BY <3>2, ByteAssumption
    <2>7. s \in Chunks(cs) /\ Len(s) = last + 1
      <3>1. last + 1 \in Nat
        OBVIOUS
      <3>. QED  BY <2>4, <2>6, <3>1, IsASeq DEF Chunks
    <2>8. ASSUME NEW at \in 0..AddressSpace, NEW p \in Nat, NEW r \in Nat,
                 at = Begin(p, cs) + r, r < cs, p < last + 1
          PROVE  s[p + 1][r + 1] = IF at < size THEN ByteAt(at) ELSE 0
      <3>1. s[p + 1] = Cut(p + 1)
        BY <2>4, <2>8
      <3>2. ByteAt(at) = chunks[p + 1][r + 1]
        <4>1. p < n
          BY <2>2, <2>8
        <4>. QED  BY <1>1, <2>8, <4>1, ChunksHoldTheFile
      <3>3. PICK a \in Nat : a = Begin(p, cs) /\ at = a + r
        BY <2>8, BeginFacts
      <3>4. CASE p < last
        <4>1. a + cs <= b
          BY <2>3, <3>3, <3>4, BeginFacts
        <4>2. at < size
          BY <1>4, <2>3, <2>8, <3>3, <4>1
        <4>3. s[p + 1][r + 1] = chunks[p + 1][r + 1]
          BY <3>1, <3>4
        <4>. QED  BY <3>2, <4>2, <4>3
      <3>5. CASE p = last
        <4>1. a = b /\ at = b + r
          BY <2>3, <3>3, <3>5
        <4>2. CASE size < len /\ tail # 0
          <5>1. s[p + 1][r + 1] = IF r + 1 <= tail THEN chunks[p + 1][r + 1] ELSE 0
            <6>1. r + 1 \in 1..cs /\ p + 1 = last + 1
              BY <2>8, <3>5
            <6>. QED  BY <3>1, <4>2, <6>1
          <5>2. r + 1 <= tail <=> at < size
            <6>1. size = b + tail
              BY <2>3, <4>2
            <6>. QED  BY <4>1, <6>1
          <5>. QED  BY <3>2, <5>1, <5>2
        <4>3. CASE ~(size < len /\ tail # 0)
          <5>1. s[p + 1][r + 1] = ByteAt(at)
            BY <3>1, <3>2, <4>3
          <5>2. CASE at < size
            BY <5>1, <5>2
          <5>3. CASE ~(at < size)
            <6>1. size = len
              <7>1. tail # 0
                BY <2>3, <2>8, <4>1, <5>3
              <7>. QED  BY <2>2, <4>3, <7>1
            <6>2. ByteAt(at) = 0
              BY <1>1, <5>3, <6>1, AddressSpaceAssumption, ContentsFacts
            <6>. QED  BY <5>1, <5>3, <6>2
          <5>. QED  BY <5>2, <5>3
        <4>. QED  BY <4>2, <4>3
      <3>. QED  BY <2>8, <3>4, <3>5
    <2>. HIDE DEF Cut
    <2>9. IsShortened(s, cs, size)
      BY <1>4, <2>1, <2>7, <2>8 DEF IsShortened
    <2>. QED  BY <1>1, <2>5, <2>9
  <1>. QED  BY <1>3, <1>4

\* A truncation.
LEMMA TruncateStep ==
    ASSUME ChunkInv, NEW size \in 0..AddressSpace, Truncate(size)
    PROVE  ChunkInv' /\ Contents' = SubSeq(Contents, 1, size)
  <1>1. size \in Nat /\ size <= file_size /\ file_size' = size /\ chunk_size' = chunk_size
    BY AddressSpaceAssumption DEF Truncate
  <1>2. PICK len \in Nat : /\ len = file_size /\ Len(Contents) = len
                           /\ Contents = [i \in 1..len |-> ByteAt(i - 1)]
    BY ContentsFacts
  <1>3. SubSeq(Contents, 1, size) = [i \in 1..size |-> ByteAt(i - 1)]
    <2>1. size - 1 + 1 = size /\ \A i \in 1..size : 1 + i - 1 = i /\ i \in 1..len
      BY <1>1, <1>2
    <2>2. SubSeq(Contents, 1, size) = [i \in 1..size |-> Contents[i]]
      BY <1>1, <2>1
    <2>. QED  BY <1>2, <2>1, <2>2
  <1>4. CASE chunk_size = Unsized
    <2>1. file_size = 0 /\ chunks = <<>> /\ chunks' = chunks
      BY <1>4 DEF ChunkInv, ChunksFitTheFile, Truncate
    <2>2. size = 0 /\ file_size' = 0
      BY <1>1, <2>1
    <2>3. ChunkInv'
      BY <1>1, <1>4, <2>1, <2>2, AddressSpaceAssumption
      DEF ChunkInv, ChunkSizeOK, ChunksFitTheFile, AllocatedTailIsZero
    <2>4. Contents' = <<>> /\ SubSeq(Contents, 1, size) = <<>>
      BY <1>3, <2>2 DEF Contents
    <2>. QED  BY <2>3, <2>4
  <1>5. CASE chunk_size # Unsized
    <2>1. chunks' = Shortened(size)
      BY <1>5 DEF Truncate
    <2>2. IsShortened(chunks', chunk_size', size)
      BY <1>1, <1>5, <2>1, ShortenedFacts
    <2>3. Fitting'
      <3>1. chunk_size' \in Nat \ {0}
        BY <1>1, <1>5, ReachFacts
      <3>. QED  BY <1>1, <2>2, <3>1 DEF Fitting, IsShortened
    <2>4. PICK byte : byte = [at \in 0..AddressSpace |-> IF at < size THEN ByteAt(at) ELSE 0]
      OBVIOUS
    <2>5. Holding(byte)'
      BY <2>2, <2>4 DEF Holding, IsShortened
    <2>6. \A at \in 0..AddressSpace : file_size' <= at => byte[at] = 0
      BY <1>1, <2>4, AddressSpaceAssumption
    <2>7. ChunkInv' /\ Contents' = [i \in 1..file_size' |-> byte[i - 1]]
      BY <2>3, <2>5, <2>6, HoldingIsEnough
    <2>8. ASSUME NEW i \in 1..size
          PROVE  byte[i - 1] = ByteAt(i - 1)
      <3>1. i - 1 \in 0..AddressSpace /\ i - 1 < size
        BY <1>1, AddressSpaceAssumption
      <3>. QED  BY <2>4, <3>1
    <2>. QED  BY <1>1, <1>3, <2>7, <2>8
  <1>. QED  BY <1>4, <1>5

-----------------------------------------------------------------------------
(* Reading *)

\* A position of the file lies in one of its chunks, where its byte is.
LEMMA FileIsInChunks ==
    ASSUME ChunkInv, NEW at \in Nat, at < file_size, NEW p \in Nat, NEW r \in Nat,
           r < chunk_size, at = Begin(p, chunk_size) + r
    PROVE  p < Len(chunks) /\ chunks[p + 1][r + 1] = Contents[at + 1]
  <1>1. chunk_size # Unsized
    BY DEF ChunkInv, ChunksFitTheFile
  <1>2. PICK size \in Nat \ {0}, len \in Nat, end \in Nat, n \in Nat :
          /\ size = chunk_size /\ len = file_size /\ n = Len(chunks)
          /\ end = Begin(n, size) /\ len <= end
    BY <1>1, ReachFacts
  <1>3. PICK b \in Nat : b = Begin(p, size) /\ at = b + r
    BY <1>2, BeginFacts
  <1>4. p < n
    <2>1. n < p => end + size <= b
      BY <1>2, <1>3, BeginFacts
    <2>2. n = p => end = b
      BY <1>2, <1>3
    <2>3. at < len /\ len <= end /\ at = b + r
      BY <1>2, <1>3
    <2>. QED  BY <2>1, <2>2, <2>3
  <1>5. at + 1 \in 1..file_size /\ at + 1 - 1 = at
    BY <1>2
  <1>. QED  BY <1>2, <1>4, <1>5, CellFacts DEF Contents

\* What was read from the offset on.
IsRead(out, offset, n) ==
    out \in Seq(Byte) /\ Len(out) = n /\ \A i \in 1..n : out[i] = Contents[offset + i]

\* The state of read's loop after k of its iterations: `done` bytes are read, and
\* while there is one left it is in the chunk whose turn it is.
ReadStateOf(acc, offset, size, first, k, out, done, left, r) ==
    /\ acc = [out |-> out, size |-> left, remaining_idx |-> r]
    /\ IsRead(out, offset, done) /\ done + left = size
    /\ r < chunk_size
    /\ left > 0 => offset + done = Begin(first + k, chunk_size) + r
ReadState(acc, offset, size, first, k) ==
    \E out \in Seq(Byte), done \in Nat, left \in Nat, r \in Nat :
        ReadStateOf(acc, offset, size, first, k, out, done, left, r)

\* A part of one chunk follows what was read.
LEMMA ReadPart ==
    ASSUME ChunkInv, NEW offset \in Nat, NEW done \in Nat, NEW out, IsRead(out, offset, done),
           NEW idx \in Nat, idx < Len(chunks), NEW r \in Nat, NEW n \in Nat, n > 0,
           chunk_size \in Nat, r + n <= chunk_size,
           offset + done = Begin(idx, chunk_size) + r, offset + done + n <= file_size
    PROVE  IsRead(out \o SubSeq(chunks[idx + 1], r + 1, r + n), offset, done + n)
  <1>1. PICK chunk : chunk = chunks[idx + 1]
    OBVIOUS
  <1>2. chunk_size # Unsized
    BY DEF ChunkInv, ChunksFitTheFile, ChunkSizeOK
  <1>3. PICK size \in Nat \ {0}, len \in Nat : size = chunk_size /\ len = file_size
    BY <1>2, ReachFacts
  <1>4. chunk \in [1..size -> Byte]
    <2>1. idx + 1 \in 1..Len(chunks) /\ chunks \in Chunks(size)
      BY <1>2, <1>3, ReachFacts
    <2>. QED  BY <1>1, <2>1, ElementOfSeq DEF Chunks
  <1>5. PICK part : part = SubSeq(chunk, r + 1, r + n)
    OBVIOUS
  <1>6. part \in Seq(Byte) /\ Len(part) = n /\ \A i \in 1..n : part[i] = chunk[r + i]
    <2>1. r + 1 \in Int /\ r + n \in Int /\ r + 1 <= r + n /\ (r + n) - (r + 1) + 1 = n
      OBVIOUS
    <2>2. \A i \in (r + 1)..(r + n) : chunk[i] \in Byte
      BY <1>3, <1>4
    <2>3. /\ part \in Seq(Byte) /\ Len(part) = n
          /\ \A i \in 1..n : part[i] = chunk[(r + 1) + i - 1]
      <3>1. PICK from \in Int, to \in Int : from = r + 1 /\ to = r + n
        BY <2>1
      <3>2. /\ SubSeq(chunk, from, to) \in Seq(Byte)
            /\ Len(SubSeq(chunk, from, to)) = IF from <= to THEN to - from + 1 ELSE 0
            /\ \A i \in 1..(to - from + 1) : SubSeq(chunk, from, to)[i] = chunk[from + i - 1]
        BY <2>2, <3>1, SubSeqProperties
      <3>3. from <= to /\ to - from + 1 = n
        BY <2>1, <3>1
      <3>. QED  BY <1>5, <3>1, <3>2, <3>3
    <2>4. \A i \in 1..n : (r + 1) + i - 1 = r + i
      OBVIOUS
    <2>. QED  BY <2>3, <2>4
  <1>7. ASSUME NEW i \in 1..n
        PROVE  chunk[r + i] = Contents[offset + done + i]
    <2>1. PICK at \in Nat, q \in Nat : at = offset + done + i - 1 /\ q = r + i - 1
      <3>1. offset + done + i - 1 \in Nat /\ r + i - 1 \in Nat
        OBVIOUS
      <3>. QED  BY <3>1
    <2>2. PICK b \in Nat : b = Begin(idx, size) /\ offset + done = b + r
      BY <1>3, BeginFacts
    <2>3. at = b + q /\ q < size /\ q + 1 = r + i /\ at + 1 = offset + done + i
      BY <1>3, <2>1, <2>2
    <2>4. at < file_size
      BY <1>3, <2>1
    <2>5. chunks[idx + 1][q + 1] = Contents[at + 1]
      <3>1. q < chunk_size /\ at = Begin(idx, chunk_size) + q
        BY <1>3, <2>2, <2>3
      <3>. QED  BY <2>4, <3>1, FileIsInChunks
    <2>. QED  BY <1>1, <2>3, <2>5
  <1>8. PICK all : all = out \o part
    OBVIOUS
  <1>9. out \in Seq(Byte) /\ Len(out) = done /\ \A i \in 1..done : out[i] = Contents[offset + i]
    BY DEF IsRead
  <1>10. /\ all \in Seq(Byte) /\ Len(all) = done + n
         /\ \A i \in 1..(done + n) : all[i] = IF i <= done THEN out[i] ELSE part[i - done]
    <2>1. out \in Seq(Byte) /\ Len(out) = done /\ part \in Seq(Byte) /\ Len(part) = n
      BY <1>6, <1>9
    <2>2. /\ out \o part \in Seq(Byte) /\ Len(out \o part) = Len(out) + Len(part)
          /\ \A i \in 1..(Len(out) + Len(part)) :
                (out \o part)[i] = IF i <= Len(out) THEN out[i] ELSE part[i - Len(out)]
      BY <2>1, ConcatProperties
    <2>. QED  BY <1>8, <2>1, <2>2
  <1>11. ASSUME NEW i \in 1..(done + n)
         PROVE  all[i] = Contents[offset + i]
    <2>1. CASE i <= done
      BY <1>9, <1>10, <2>1
    <2>2. CASE ~(i <= done)
      <3>1. PICK j \in 1..n : j = i - done /\ offset + done + j = offset + i
        BY <2>2
      <3>. QED  BY <1>6, <1>7, <1>10, <2>2, <3>1
    <2>. QED  BY <2>1, <2>2
  <1>12. IsRead(all, offset, done + n)
    BY <1>10, <1>11 DEF IsRead
  <1>. QED  BY <1>1, <1>5, <1>8, <1>12

\* An iteration of read's loop.
LEMMA ReadChunkStep ==
    ASSUME ChunkInv, chunk_size # Unsized,
           NEW offset \in Nat, NEW size \in Nat, offset + size <= file_size,
           NEW first \in Nat, NEW k \in Nat, first + k < Len(chunks),
           NEW acc, ReadState(acc, offset, size, first, k)
    PROVE  ReadState(ReadChunk(acc, first + k), offset, size, first, k + 1)
  <1>1. PICK out \in Seq(Byte), done \in Nat, left \in Nat, r \in Nat :
          ReadStateOf(acc, offset, size, first, k, out, done, left, r)
    BY DEF ReadState
  <1>2. PICK cs \in Nat \ {0}, len \in Nat : cs = chunk_size /\ len = file_size
    BY ReachFacts
  <1>3. PICK idx \in Nat : idx = first + k
    OBVIOUS
  <1>4. r < cs /\ done + left = size /\ IsRead(out, offset, done)
    BY <1>1, <1>2 DEF ReadStateOf
  <1>5. acc.out = out /\ acc.size = left /\ acc.remaining_idx = r
    BY <1>1 DEF ReadStateOf
  <1>6. PICK n \in Nat : n = Smaller(cs - r, left) /\ n <= cs - r /\ n <= left
                         /\ (n = cs - r \/ n = left) /\ (left > 0 => n > 0)
    <2>1. /\ Smaller(cs - r, left) \in Nat
          /\ Smaller(cs - r, left) <= cs - r /\ Smaller(cs - r, left) <= left
          /\ Smaller(cs - r, left) = cs - r \/ Smaller(cs - r, left) = left
          /\ left > 0 => Smaller(cs - r, left) > 0
      BY <1>4 DEF Smaller
    <2>. QED  BY <2>1
  <1>7. PICK out2 : out2 = out \o SubSeq(chunks[idx + 1], r + 1, r + n)
    OBVIOUS
  <1>8. ReadChunk(acc, idx) = [out |-> out2, size |-> left - n, remaining_idx |-> 0]
    BY <1>2, <1>5, <1>6, <1>7 DEF ReadChunk
  <1>9. IsRead(out2, offset, done + n)
    <2>1. CASE left > 0
      <3>1. offset + done = Begin(idx, chunk_size) + r
        BY <1>1, <1>3, <2>1 DEF ReadStateOf
      <3>2. n > 0 /\ r + n <= chunk_size /\ chunk_size \in Nat
        BY <1>2, <1>4, <1>6, <2>1
      <3>3. offset + done + n <= file_size
        BY <1>2, <1>4, <1>6
      <3>. QED  BY <1>3, <1>4, <1>7, <3>1, <3>2, <3>3, ReadPart
    <2>2. CASE ~(left > 0)
      <3>1. n = 0 /\ r + n = r /\ r < r + 1 /\ done + n = done
        BY <1>6, <2>2
      <3>2. SubSeq(chunks[idx + 1], r + 1, r) = <<>>
        BY SubSeqEmpty
      <3>3. out2 = out
        BY <1>4, <1>7, <3>1, <3>2, ConcatEmptySeq DEF IsRead
      <3>. QED  BY <1>4, <3>1, <3>3
    <2>. QED  BY <2>1, <2>2
  <1>10. /\ done + n \in Nat /\ left - n \in Nat /\ (done + n) + (left - n) = size
    <2>1. n <= left /\ done + left = size
      BY <1>4, <1>6
    <2>. QED  BY <2>1
  <1>11. left - n > 0 => offset + (done + n) = Begin(first + (k + 1), chunk_size) + 0
    <2>. SUFFICES ASSUME left - n > 0
                  PROVE  offset + (done + n) = Begin(first + (k + 1), chunk_size) + 0
      OBVIOUS
    <2>1. left > 0 /\ n = cs - r
      BY <1>6
    <2>2. PICK b \in Nat : b = Begin(idx, cs) /\ Begin(idx + 1, cs) = b + cs
      BY BeginFacts
    <2>3. offset + done = b + r
      BY <1>1, <1>2, <1>3, <2>1, <2>2 DEF ReadStateOf
    <2>4. first + (k + 1) = idx + 1
      BY <1>3
    <2>5. offset + (done + n) = b + cs + 0
      BY <1>4, <2>1, <2>3
    <2>. QED  BY <1>2, <2>2, <2>4, <2>5
  <1>12. ReadStateOf(ReadChunk(acc, idx), offset, size, first, k + 1, out2, done + n, left - n, 0)
    BY <1>2, <1>8, <1>9, <1>10, <1>11 DEF ReadStateOf
  <1>13. out2 \in Seq(Byte)
    BY <1>9 DEF IsRead
  <1>14. ReadState(ReadChunk(acc, idx), offset, size, first, k + 1)
    BY <1>10, <1>12, <1>13 DEF ReadState
  <1>. QED  BY <1>3, <1>14

\* What read's loop computes: it ends with every byte asked for.
LEMMA ReadLoopReads ==
    ASSUME ChunkInv, chunk_size # Unsized,
           NEW offset \in Nat, NEW size \in Nat, offset + size <= file_size,
           NEW first \in Nat, NEW r \in Nat, r < chunk_size,
           offset = Begin(first, chunk_size) + r, first < Len(chunks),
           NEW acc, acc = [out |-> <<>>, size |-> size, remaining_idx |-> r]
    PROVE  IsRead(ReadLoop(acc, first, Len(chunks) - first).out, offset, size)
  <1>1. PICK cs \in Nat \ {0}, len \in Nat, end \in Nat, n \in Nat :
          /\ cs = chunk_size /\ len = file_size /\ n = Len(chunks)
          /\ end = Begin(n, cs) /\ len <= end
    BY ReachFacts
  <1>2. PICK count \in Nat : count = Len(chunks) - first /\ first + count = n
    <2>1. n - first \in Nat /\ first + (n - first) = n
      BY <1>1
    <2>. QED  BY <1>1, <2>1
  <1>3. PICK f : ReadTrace(f, acc, first, count)
    BY ReadLoopFacts
  <1>. DEFINE State(k) == ReadState(f[k], offset, size, first, k)
              T == {k \in Nat : k <= count => State(k)}
  <1>4. 0 \in T
    <2>1. IsRead(<<>>, offset, 0)
      BY EmptySeq DEF IsRead
    <2>2. 0 + size = size /\ offset + 0 = offset /\ first + 0 = first
      OBVIOUS
    <2>3. ReadStateOf(acc, offset, size, first, 0, <<>>, 0, size, r)
      BY <2>1, <2>2 DEF ReadStateOf
    <2>4. ReadState(acc, offset, size, first, 0)
      BY <2>3, EmptySeq DEF ReadState
    <2>. QED  BY <1>3, <2>4 DEF ReadTrace
  <1>5. ASSUME NEW k \in Nat, k \in T
        PROVE  k + 1 \in T
    <2>. SUFFICES ASSUME k + 1 <= count
                  PROVE  State(k + 1)
      OBVIOUS
    <2>1. k < count /\ State(k)
      BY <1>5
    <2>2. first + k < Len(chunks)
      BY <1>1, <1>2, <2>1
    <2>3. ReadState(ReadChunk(f[k], first + k), offset, size, first, k + 1)
      BY <2>1, <2>2, ReadChunkStep
    <2>. QED  BY <1>3, <2>1, <2>3 DEF ReadTrace
  <1>. HIDE DEF T
  <1>6. count \in T
    BY <1>4, <1>5, NumbersInduction
  <1>7. State(count)
    BY <1>6 DEF T
  <1>8. PICK out \in Seq(Byte), done \in Nat, left \in Nat, rest \in Nat :
          ReadStateOf(f[count], offset, size, first, count, out, done, left, rest)
    BY <1>7 DEF ReadState
  <1>9. f[count].out = out /\ IsRead(out, offset, done) /\ done + left = size
    BY <1>8 DEF ReadStateOf
  <1>10. left = 0
    <2>. SUFFICES ASSUME left > 0
                  PROVE  FALSE
      OBVIOUS
    <2>1. offset + done = end + rest
      BY <1>1, <1>2, <1>8 DEF ReadStateOf
    <2>2. offset + size <= len /\ len <= end /\ done + left = size
      BY <1>1, <1>9
    <2>. QED  BY <2>1, <2>2
  <1>11. done = size
    BY <1>9, <1>10
  <1>. QED  BY <1>2, <1>3, <1>9, <1>11 DEF ReadTrace

\* How many bytes a read returns.
Available(length, offset) == IF offset < file_size THEN Smaller(length, file_size - offset) ELSE 0

\* What a read returns.
LEMMA ReadFacts ==
    ASSUME ChunkInv, NEW offset \in Nat, NEW length \in Nat
    PROVE  IsRead(Read(length, offset), offset, Available(length, offset))
  <1>1. PICK len \in Nat : len = file_size
    BY ContentsFacts
  <1>2. CASE length = 0 \/ offset >= file_size \/ chunk_size = Unsized
    <2>1. Read(length, offset) = <<>>
      BY <1>2 DEF Read
    <2>2. chunk_size = Unsized => offset >= file_size
      BY DEF ChunkInv, ChunksFitTheFile
    <2>3. Available(length, offset) = 0
      <3>1. length = 0 \/ offset >= len
        BY <1>1, <1>2, <2>2
      <3>. QED  BY <1>1, <3>1 DEF Available, Smaller
    <2>. QED  BY <2>1, <2>3, EmptySeq DEF IsRead
  <1>3. CASE ~(length = 0 \/ offset >= file_size \/ chunk_size = Unsized)
    <2>1. PICK cs \in Nat \ {0} : cs = chunk_size /\ chunks \in Chunks(cs)
      BY <1>3, ReachFacts
    <2>2. PICK first \in Nat, r \in Nat : /\ first = offset \div cs /\ r = offset % cs /\ r < cs
                                           /\ offset = Begin(first, cs) + r
      BY DivisionFacts
    <2>3. offset < file_size
      BY <1>1, <1>3
    <2>4. first < Len(chunks)
      BY <2>1, <2>2, <2>3, FileIsInChunks
    <2>5. PICK size \in Nat : /\ size = Smaller(length, file_size - offset)
                              /\ size = Available(length, offset)
                              /\ offset + size <= file_size
      <3>1. /\ Smaller(length, len - offset) \in Nat
            /\ offset + Smaller(length, len - offset) <= len
        BY <1>1, <2>3 DEF Smaller
      <3>. QED  BY <1>1, <2>3, <3>1 DEF Available
    <2>6. CASE WholeChunk(length, offset)
      <3>1. cs = length /\ r = 0 /\ len - offset >= length
        BY <1>1, <2>1, <2>2, <2>6 DEF WholeChunk
      <3>2. PICK chunk : chunk = chunks[first + 1]
        OBVIOUS
      <3>3. Read(length, offset) = chunk
        BY <1>3, <2>1, <2>2, <2>6, <3>2 DEF Read
      <3>4. size = length
        BY <1>1, <2>5, <3>1 DEF Smaller
      <3>5. chunk \in [1..length -> Byte]
        <4>1. Len(chunks) \in Nat
          BY <2>1, LenProperties DEF Chunks
        <4>2. first + 1 \in 1..Len(chunks)
          BY <2>4, <4>1
        <4>. QED  BY <2>1, <3>1, <3>2, <4>2, ElementOfSeq DEF Chunks
      <3>6. chunk \in Seq(Byte) /\ Len(chunk) = length
        BY <3>5
      <3>7. ASSUME NEW i \in 1..length
            PROVE  chunk[i] = Contents[offset + i]
        <4>1. PICK at \in Nat, q \in Nat : at = offset + i - 1 /\ q = i - 1
          <5>1. offset + i - 1 \in Nat /\ i - 1 \in Nat
            OBVIOUS
          <5>. QED  BY <5>1
        <4>2. PICK b \in Nat : b = Begin(first, cs) /\ offset = b + r
          BY <2>2, BeginFacts
        <4>3. at = b + q /\ q < cs /\ q + 1 = i /\ at + 1 = offset + i /\ at < len
          BY <1>1, <3>1, <4>1, <4>2
        <4>4. at = Begin(first, chunk_size) + q /\ q < chunk_size /\ at < file_size
          BY <1>1, <2>1, <4>2, <4>3
        <4>5. chunks[first + 1][q + 1] = Contents[at + 1]
          BY <4>4, FileIsInChunks
        <4>. QED  BY <3>2, <4>3, <4>5
      <3>8. IsRead(chunk, offset, length)
        BY <3>6, <3>7 DEF IsRead
      <3>. QED  BY <2>5, <3>3, <3>4, <3>8
    <2>7. CASE ~WholeChunk(length, offset)
      <3>1. PICK acc : acc = [out |-> <<>>, size |-> size, remaining_idx |-> r]
        OBVIOUS
      <3>2. Read(length, offset) = ReadLoop(acc, first, Len(chunks) - first).out
        BY <1>3, <2>1, <2>2, <2>5, <2>7, <3>1 DEF Read
      <3>3. r < chunk_size /\ offset = Begin(first, chunk_size) + r /\ chunk_size # Unsized
        BY <1>3, <2>1, <2>2
      <3>4. IsRead(ReadLoop(acc, first, Len(chunks) - first).out, offset, size)
        BY <2>4, <2>5, <3>1, <3>3, ReadLoopReads
      <3>. QED  BY <2>5, <3>2, <3>4
    <2>. QED  BY <2>6, <2>7
  <1>. QED  BY <1>2, <1>3

\* xRead's answer.
LEMMA XReadFacts ==
    ASSUME ChunkInv, NEW offset \in Nat, NEW length \in Nat
    PROVE  XRead(length, offset) =
              [buf |-> [i \in 1..length |->
                          IF offset + i <= file_size THEN Contents[offset + i] ELSE 0],
               short |-> length > 0 /\ offset + length > file_size]
  <1>1. PICK len \in Nat : len = file_size
    BY ContentsFacts
  <1>2. PICK n \in Nat, rest \in Nat :
          /\ n = Available(length, offset) /\ n + rest = length /\ rest = length - n
          /\ \A i \in 1..length : offset + i <= len <=> i <= n
          /\ n < length <=> length > 0 /\ offset + length > len
    <2>1. PICK n \in Nat : n = Available(length, offset)
                           /\ n = IF offset < len THEN Smaller(length, len - offset) ELSE 0
      <3>1. (IF offset < len THEN Smaller(length, len - offset) ELSE 0) \in Nat
        BY DEF Smaller
      <3>. QED  BY <1>1, <3>1 DEF Available
    <2>2. length - n \in Nat /\ n + (length - n) = length
      BY <2>1 DEF Smaller
    <2>3. \A i \in 1..length : offset + i <= len <=> i <= n
      BY <2>1 DEF Smaller
    <2>4. n < length <=> length > 0 /\ offset + length > len
      BY <2>1 DEF Smaller
    <2>. QED  BY <2>1, <2>2, <2>3, <2>4
  <1>3. PICK got : got = Read(length, offset) /\ IsRead(got, offset, n)
    BY <1>2, ReadFacts
  <1>4. got \in Seq(Byte) /\ Len(got) = n /\ \A i \in 1..n : got[i] = Contents[offset + i]
    BY <1>3 DEF IsRead
  <1>5. PICK zeros : zeros = ZeroChunk(rest)
    OBVIOUS
  <1>6. zeros \in Seq(Byte) /\ Len(zeros) = rest /\ \A i \in 1..rest : zeros[i] = 0
    BY <1>5, ByteAssumption DEF ZeroChunk
  <1>7. PICK all : all = got \o zeros
    OBVIOUS
  <1>8. /\ all \in Seq(Byte) /\ Len(all) = length
        /\ \A i \in 1..length : all[i] = IF i <= n THEN got[i] ELSE zeros[i - n]
    <2>1. /\ got \o zeros \in Seq(Byte) /\ Len(got \o zeros) = Len(got) + Len(zeros)
          /\ \A i \in 1..(Len(got) + Len(zeros)) :
                (got \o zeros)[i] = IF i <= Len(got) THEN got[i] ELSE zeros[i - Len(got)]
      BY <1>4, <1>6, ConcatProperties
    <2>. QED  BY <1>2, <1>4, <1>6, <1>7, <2>1
  <1>9. ASSUME NEW i \in 1..length
        PROVE  all[i] = IF offset + i <= file_size THEN Contents[offset + i] ELSE 0
    <2>1. CASE i <= n
      <3>1. all[i] = got[i] /\ i \in 1..n /\ offset + i <= file_size
        BY <1>1, <1>2, <1>8, <2>1
      <3>. QED  BY <1>4, <3>1
    <2>2. CASE ~(i <= n)
      <3>1. all[i] = zeros[i - n] /\ ~(offset + i <= file_size)
        BY <1>1, <1>2, <1>8, <2>2
      <3>2. i - n \in 1..rest
        BY <1>2, <2>2
      <3>. QED  BY <1>6, <3>1, <3>2
    <2>. QED  BY <2>1, <2>2
  <1>10. all = [i \in 1..length |->
                  IF offset + i <= file_size THEN Contents[offset + i] ELSE 0]
    <2>1. all = [i \in 1..length |-> all[i]]
      BY <1>8, LenProperties
    <2>. QED  BY <1>9, <2>1
  <1>11. XRead(length, offset) = [buf |-> all, short |-> n < length]
    BY <1>2, <1>3, <1>4, <1>5, <1>7 DEF XRead
  <1>12. (n < length) = (length > 0 /\ offset + length > file_size)
    BY <1>1, <1>2
  <1>. QED  BY <1>10, <1>11, <1>12

-----------------------------------------------------------------------------
(* The theorems *)

\* A new file has no chunk and no byte.
LEMMA InitHolds ==
    ASSUME Init
    PROVE  ChunkInv /\ Contents = <<>>
  <1>1. chunks = <<>> /\ file_size = 0 /\ ChunkSizeOK
    BY ChunkSizeAssumption DEF Init, ChunkSizeOK
  <1>2. ChunksFitTheFile
    BY <1>1, AddressSpaceAssumption, EmptySeq DEF ChunksFitTheFile
  <1>3. AllocatedTailIsZero
    <2>. SUFFICES ASSUME chunk_size # Unsized, NEW at \in 0..AddressSpace,
                         at < Len(chunks) * chunk_size
                  PROVE  FALSE
      BY DEF AllocatedTailIsZero
    <2>1. chunk_size \in Nat /\ Len(chunks) = 0
      BY <1>1, EmptySeq DEF ChunkSizeOK
    <2>2. Len(chunks) * chunk_size = 0
      BY <2>1
    <2>. QED  BY <2>2, AddressSpaceAssumption
  <1>. QED  BY <1>1, <1>2, <1>3 DEF ChunkInv, Contents

\* Every step keeps the invariant and is a step of the flat file, or none.
LEMMA NextStep ==
    ASSUME ChunkInv, [Next]_vars
    PROVE  ChunkInv' /\ [Flat!Next]_Contents
  <1>1. CASE UNCHANGED vars
    <2>1. ChunkInv' /\ Contents' = Contents
      BY <1>1 DEF vars, ChunkInv, ChunkSizeOK, ChunksFitTheFile, AllocatedTailIsZero,
                  Contents, Cell
    <2>. QED  BY <2>1
  <1>2. ASSUME NEW buf \in Buffers, NEW offset \in 0..AddressSpace, Write(buf, offset)
        PROVE  ChunkInv' /\ Flat!Next
    <2>1. ChunkInv' /\ Contents' = Flat!Overlaid(Contents, buf, offset)
      BY <1>2, WriteStep
    <2>2. offset + Len(buf) <= AddressSpace
      BY <1>2 DEF Write
    <2>. QED  BY <2>1, <2>2 DEF Flat!Next, Flat!Write, Flat!Fits
  <1>3. ASSUME NEW buf \in Buffers, NEW offset \in 0..AddressSpace, NEW k \in 0..AddressSpace,
               WriteFails(buf, offset, k)
        PROVE  UNCHANGED vars
    BY <1>3, FailStep
  <1>4. ASSUME NEW size \in 0..AddressSpace, Truncate(size)
        PROVE  ChunkInv' /\ Flat!Next
    <2>1. ChunkInv' /\ Contents' = SubSeq(Contents, 1, size)
      BY <1>4, TruncateStep
    <2>2. size <= Len(Contents)
      BY <1>4, ContentsFacts DEF Truncate
    <2>. QED  BY <2>1, <2>2 DEF Flat!Next, Flat!Truncate
  <1>. QED  BY <1>1, <1>2, <1>3, <1>4 DEF Next

\* The invariant of the chunked file: chunks of one size, as many as the file
\* needs, with zeros behind its end (lib.rs write, truncate).
THEOREM ChunkInvariant == Spec => []ChunkInv
  <1>1. Init => ChunkInv
    BY InitHolds
  <1>2. ChunkInv /\ [Next]_vars => ChunkInv'
    BY NextStep
  <1>. QED  BY <1>1, <1>2, PTL DEF Spec

\* However writes, failed ones and truncations follow each other, the chunks
\* are exactly those the file's size needs (lib.rs write, truncate).
THEOREM ChunksFit == Spec => []ChunksFitTheFile
  <1>1. ChunkInv => ChunksFitTheFile
    BY DEF ChunkInv
  <1>. QED  BY <1>1, ChunkInvariant, PTL

\* What is allocated behind the end is always zero, whatever was truncated.
THEOREM TailIsZero == Spec => []AllocatedTailIsZero
  <1>1. ChunkInv => AllocatedTailIsZero
    BY DEF ChunkInv
  <1>. QED  BY <1>1, ChunkInvariant, PTL

\* The chunked file implements an array of bytes: its loops, its single-chunk
\* path, its undoing and its truncation do to the contents what the array's do.
THEOREM Refinement == Spec => ImplementsByteFile
  <1>1. Init => Flat!Init
    BY InitHolds DEF Flat!Init
  <1>2. ChunkInv /\ [Next]_vars => [Flat!Next]_Contents
    BY NextStep
  <1>. QED  BY <1>1, <1>2, ChunkInvariant, PTL DEF Spec, ImplementsByteFile, Flat!Spec

\* A read of any length at any offset returns the array's bytes and then zeros,
\* and is short exactly when it passes the end (lib.rs read, xRead).
THEOREM ReadsAreOfTheFile == Spec => []ReadsAgree
  <1>1. ChunkInv => ReadsAgree
    <2>. SUFFICES ASSUME ChunkInv, NEW offset \in 0..AddressSpace, NEW length \in 0..AddressSpace
                  PROVE  XRead(length, offset) =
                            [buf |-> [i \in 1..length |->
                                        IF offset + i <= file_size THEN Contents[offset + i] ELSE 0],
                             short |-> length > 0 /\ offset + length > file_size]
      BY DEF ReadsAgree
    <2>1. offset \in Nat /\ length \in Nat
      BY AddressSpaceAssumption
    <2>. QED  BY <2>1, XReadFacts
  <1>. QED  BY <1>1, ChunkInvariant, PTL

=============================================================================
