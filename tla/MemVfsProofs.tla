---------------------------- MODULE MemVfsProofs -----------------------------
(***************************************************************************)
(* Proofs about MemVfs and the transfers over it, for any number of names, *)
(* files, connections, imports and exports, and whatever contents callers  *)
(* send and write in chunks of whatever length.                            *)
(***************************************************************************)
EXTENDS MemVfs, SequenceTheorems, TLAPS

-----------------------------------------------------------------------------
(* The inductive invariant *)

Contents == Seq(Nat)

\* Names and handles refer to files.
FilesInv ==
    /\ files \in [Names -> Rcs \cup {NoFile}]
    /\ data \in [Rcs -> Contents]
    /\ DOMAIN handles = Handles
    /\ \A h \in Handles : Open(h) => handles[h].file \in Rcs

ExportStates == [size : Nat, offset : Nat]

\* An export that is not spoilt finds the image it began with in its file.
ExportHolds(e) ==
    /\ exports[e] \in [file : Rcs, name : Names, export : ExportStates,
                       image : Contents \cup {Spoilt}, faithful : {TRUE}]
    /\ exports[e].export.offset <= exports[e].export.size
    /\ exports[e].image # Spoilt =>
          /\ data[exports[e].file] = exports[e].image
          /\ Len(exports[e].image) = exports[e].export.size

ExportsInv ==
    /\ DOMAIN exports = Exports
    /\ \A e \in Exports : exports[e] # NoTransfer => ExportHolds(e)

\* An import in progress, with this much of its image sent, until a write fails:
\* the target has what was sent, and the header is the image's as far as it has
\* come; once it has come it was checked.
ImportHolds(import, image, sent) ==
    /\ import.offset = sent /\ sent <= import.size
    /\ import.target = SubSeq(image, 1, sent)
    /\ import.checked =>
          /\ ValidSize(import.size)
          /\ import.header \in Contents /\ Len(import.header) = HeaderLen
          /\ \A j \in 1..HeaderLen : j <= sent => import.header[j] = image[j]
          /\ sent >= HeaderLen => CheckImportHeader(import.header, import.size)

ImportStates ==
    [size : Nat, checked : BOOLEAN, offset : Nat, header : Contents,
     failed : BOOLEAN, target : Contents]
ImportRecords == [name : Names, image : Contents, sent : Nat, import : ImportStates]

ImportsInv ==
    /\ DOMAIN imports = Imports
    /\ \A i \in Imports : imports[i] # NoTransfer =>
          /\ imports[i] \in ImportRecords
          /\ imports[i].sent <= Len(imports[i].image)
          /\ imports[i].import.failed \/ ImportHolds(imports[i].import, imports[i].image, imports[i].sent)

MemInv == FilesInv /\ ExportsInv /\ ImportsInv

-----------------------------------------------------------------------------
(* Contents *)

\* A write gives contents again.
LEMMA OverlaidType ==
    ASSUME NEW b \in Contents, NEW buf \in Contents, NEW offset \in Nat
    PROVE  /\ Overlaid(b, buf, offset) \in Contents
           /\ Len(Overlaid(b, buf, offset)) =
                IF offset + Len(buf) > Len(b) THEN offset + Len(buf) ELSE Len(b)
           /\ \A i \in 1..Len(Overlaid(b, buf, offset)) :
                 Overlaid(b, buf, offset)[i] =
                    IF offset < i /\ i <= offset + Len(buf) THEN buf[i - offset]
                    ELSE IF i <= Len(b) THEN b[i] ELSE 0
  <1>. DEFINE end == offset + Len(buf)
              n == IF end > Len(b) THEN end ELSE Len(b)
  <1>1. n \in Nat /\ end \in Nat
    BY DEF Contents
  <1>2. ASSUME NEW i \in 1..n
        PROVE  (IF offset < i /\ i <= end THEN buf[i - offset]
                ELSE IF i <= Len(b) THEN b[i] ELSE 0) \in Nat
    BY <1>1 DEF Contents
  <1>3. Overlaid(b, buf, offset) =
            [i \in 1..n |-> IF offset < i /\ i <= end THEN buf[i - offset]
                            ELSE IF i <= Len(b) THEN b[i] ELSE 0]
    BY DEF Overlaid
  <1>. HIDE DEF n, end
  <1>4. Overlaid(b, buf, offset) \in Contents /\ Len(Overlaid(b, buf, offset)) = n
    BY <1>1, <1>2, <1>3 DEF Contents
  <1>. QED  BY <1>3, <1>4 DEF n, end

\* A part of some contents.
LEMMA PartFacts ==
    ASSUME NEW c \in Contents, NEW a \in Nat, NEW n \in Nat, a + n <= Len(c)
    PROVE  /\ SubSeq(c, a + 1, a + n) \in Contents
           /\ Len(SubSeq(c, a + 1, a + n)) = n
           /\ \A j \in 1..n : SubSeq(c, a + 1, a + n)[j] = c[a + j]
  <1>1. Len(c) \in Nat /\ \A i \in (a + 1)..(a + n) : c[i] \in Nat
    BY DEF Contents
  <1>2. /\ SubSeq(c, a + 1, a + n) \in Seq(Nat)
        /\ Len(SubSeq(c, a + 1, a + n)) = IF a + 1 <= a + n THEN (a + n) - (a + 1) + 1 ELSE 0
        /\ \A j \in 1..((a + n) - (a + 1) + 1) : SubSeq(c, a + 1, a + n)[j] = c[(a + 1) + j - 1]
    BY <1>1, SubSeqProperties
  <1>3. (a + n) - (a + 1) + 1 = n /\ \A j \in 1..n : (a + 1) + j - 1 = a + j
    OBVIOUS
  <1>. QED  BY <1>2, <1>3 DEF Contents

\* The first cells of some contents.
LEMMA HeadFacts ==
    ASSUME NEW c \in Contents, NEW n \in Nat, n <= Len(c)
    PROVE  /\ SubSeq(c, 1, n) \in Contents
           /\ Len(SubSeq(c, 1, n)) = n
           /\ \A j \in 1..n : SubSeq(c, 1, n)[j] = c[j]
  <1>1. Len(c) \in Nat /\ \A i \in 1..n : c[i] \in Nat
    BY DEF Contents
  <1>2. /\ SubSeq(c, 1, n) \in Seq(Nat)
        /\ Len(SubSeq(c, 1, n)) = IF 1 <= n THEN n - 1 + 1 ELSE 0
        /\ \A j \in 1..(n - 1 + 1) : SubSeq(c, 1, n)[j] = c[1 + j - 1]
    BY <1>1, SubSeqProperties
  <1>3. n - 1 + 1 = n /\ \A j \in 1..n : 1 + j - 1 = j
    OBVIOUS
  <1>. QED  BY <1>2, <1>3 DEF Contents

\* Sending the next part of an image to a target that has all before it.
LEMMA PrefixGrows ==
    ASSUME NEW image \in Contents, NEW sent \in Nat, NEW n \in Nat, sent + n <= Len(image)
    PROVE  Overlaid(SubSeq(image, 1, sent), SubSeq(image, sent + 1, sent + n), sent)
              = SubSeq(image, 1, sent + n)
  <1>1. PICK head : head = SubSeq(image, 1, sent)
    OBVIOUS
  <1>2. PICK chunk : chunk = SubSeq(image, sent + 1, sent + n)
    OBVIOUS
  <1>3. PICK all : all = SubSeq(image, 1, sent + n)
    OBVIOUS
  <1>4. Len(image) \in Nat /\ sent <= Len(image)
    BY DEF Contents
  <1>5. head \in Contents /\ Len(head) = sent /\ \A j \in 1..sent : head[j] = image[j]
    BY <1>1, <1>4, HeadFacts
  <1>6. chunk \in Contents /\ Len(chunk) = n /\ \A j \in 1..n : chunk[j] = image[sent + j]
    BY <1>2, PartFacts
  <1>7. /\ all \in Contents /\ Len(all) = sent + n
        /\ \A j \in 1..(sent + n) : all[j] = image[j]
    BY <1>3, HeadFacts
  <1>8. PICK o : o = Overlaid(head, chunk, sent)
    OBVIOUS
  <1>9. /\ o \in Contents
        /\ Len(o) = IF sent + n > sent THEN sent + n ELSE sent
        /\ \A j \in 1..Len(o) :
              o[j] = IF sent < j /\ j <= sent + n THEN chunk[j - sent]
                     ELSE IF j <= sent THEN head[j] ELSE 0
    BY <1>5, <1>6, <1>8, OverlaidType
  <1>10. Len(o) = sent + n
    BY <1>9
  <1>11. ASSUME NEW j \in 1..(sent + n)
         PROVE  o[j] = all[j]
    <2>1. CASE sent < j
      <3>1. j - sent \in 1..n /\ sent + (j - sent) = j
        BY <2>1
      <3>2. o[j] = chunk[j - sent]
        BY <1>9, <1>10, <2>1
      <3>. QED  BY <1>6, <1>7, <3>1, <3>2
    <2>2. CASE ~(sent < j)
      <3>1. o[j] = head[j] /\ j \in 1..sent
        BY <1>9, <1>10, <2>2
      <3>. QED  BY <1>5, <1>7, <3>1
    <2>. QED  BY <2>1, <2>2
  <1>12. o = all
    BY <1>7, <1>9, <1>10, <1>11, SeqEqual DEF Contents
  <1>. QED  BY <1>1, <1>2, <1>3, <1>8, <1>12

-----------------------------------------------------------------------------
(* Transfers *)

\* The header after a chunk: of an import that has not failed, it is the
\* image's as far as the chunk reaches.
LEMMA ReceivedFacts ==
    ASSUME NEW i \in ImportStates, NEW chunk \in Contents
    PROVE  /\ Received(i, chunk) \in Contents
           /\ Len(i.header) = HeaderLen =>
                 /\ Len(Received(i, chunk)) = HeaderLen
                 /\ \A j \in 1..HeaderLen :
                       /\ j <= i.offset => Received(i, chunk)[j] = i.header[j]
                       /\ i.checked /\ i.offset < j /\ j <= i.offset + Len(chunk)
                             => Received(i, chunk)[j] = chunk[j - i.offset]
  <1>1. /\ i.offset \in Nat /\ i.header \in Contents /\ i.checked \in BOOLEAN
        /\ Len(chunk) \in Nat /\ Len(i.header) \in Nat
    BY DEF ImportStates, Contents
  <1>2. CASE ~(i.checked /\ i.offset < HeaderLen)
    <2>1. Received(i, chunk) = i.header
      BY <1>2 DEF Received
    <2>. QED  BY <1>1, <1>2, <2>1 DEF HeaderLen
  <1>3. CASE i.checked /\ i.offset < HeaderLen
    <2>0. PICK off \in Nat, len \in Nat : off = i.offset /\ len = Len(chunk)
      BY <1>1
    <2>. DEFINE min == IF len < HeaderLen - off THEN len ELSE HeaderLen - off
    <2>1. PICK k \in Nat : /\ k = min /\ k <= Len(chunk) /\ i.offset + k <= HeaderLen
                           /\ \A j \in 1..HeaderLen :
                                 off < j /\ j <= off + len => j <= off + k
      <3>1. min \in Nat /\ min <= len /\ off + min <= 2
        BY <1>3, <2>0 DEF HeaderLen
      <3>2. ASSUME NEW j \in 1..2, off < j, j <= off + len
            PROVE  j <= off + min
        BY <1>3, <2>0, <3>2 DEF HeaderLen
      <3>. QED  BY <2>0, <3>1, <3>2 DEF HeaderLen
    <2>2. PICK part : part = SubSeq(chunk, 1, k)
      OBVIOUS
    <2>3. part \in Contents /\ Len(part) = k /\ \A j \in 1..k : part[j] = chunk[j]
      BY <2>1, <2>2, HeadFacts
    <2>4. Received(i, chunk) = Overlaid(i.header, part, i.offset)
      BY <1>3, <2>0, <2>1, <2>2 DEF Received
    <2>5. PICK o : o = Overlaid(i.header, part, i.offset)
      OBVIOUS
    <2>6. /\ o \in Contents
          /\ Len(o) = IF i.offset + k > Len(i.header) THEN i.offset + k ELSE Len(i.header)
          /\ \A j \in 1..Len(o) :
                o[j] = IF i.offset < j /\ j <= i.offset + k THEN part[j - i.offset]
                       ELSE IF j <= Len(i.header) THEN i.header[j] ELSE 0
      <3>1. /\ o \in Contents
            /\ Len(o) = IF i.offset + Len(part) > Len(i.header)
                        THEN i.offset + Len(part) ELSE Len(i.header)
            /\ \A j \in 1..Len(o) :
                  o[j] = IF i.offset < j /\ j <= i.offset + Len(part) THEN part[j - i.offset]
                         ELSE IF j <= Len(i.header) THEN i.header[j] ELSE 0
        BY <1>1, <2>3, <2>5, OverlaidType, Zenon
      <3>. QED  BY <2>3, <3>1
    <2>7. ASSUME Len(i.header) = HeaderLen
          PROVE  Len(o) = HeaderLen
      BY <1>1, <2>1, <2>6, <2>7 DEF HeaderLen
    <2>8. ASSUME Len(i.header) = HeaderLen, NEW j \in 1..HeaderLen, j <= i.offset
          PROVE  o[j] = i.header[j]
      BY <1>1, <2>6, <2>7, <2>8 DEF HeaderLen
    <2>9. ASSUME Len(i.header) = HeaderLen, NEW j \in 1..HeaderLen, i.offset < j,
                 j <= i.offset + Len(chunk)
          PROVE  o[j] = chunk[j - i.offset]
      <3>1. j <= i.offset + k /\ j - i.offset \in 1..k
        <4>1. j <= off + k
          BY <2>0, <2>1, <2>9
        <4>. QED  BY <2>0, <2>9, <4>1 DEF HeaderLen
      <3>2. o[j] = part[j - i.offset]
        BY <2>6, <2>7, <2>9, <3>1
      <3>. QED  BY <2>3, <3>1, <3>2
    <2>. QED  BY <2>4, <2>5, <2>6, <2>7, <2>8, <2>9
  <1>. QED  BY <1>2, <1>3

\* DbImport::write keeps an import well-formed.
LEMMA WriteType ==
    ASSUME NEW i \in ImportStates, NEW chunk \in Contents, NEW stored \in BOOLEAN
    PROVE  ImportWrite(i, chunk, stored) \in ImportStates
  <1>1. Received(i, chunk) \in Contents
    BY ReceivedFacts
  <1>2. Overlaid(i.target, chunk, i.offset) \in Contents /\ i.offset + Len(chunk) \in Nat
    BY OverlaidType DEF ImportStates, Contents
  <1>. QED  BY <1>1, <1>2 DEF ImportWrite, ImportStates

\* An import that has not failed has just what was sent.
LEMMA WriteHolds ==
    ASSUME NEW i \in ImportStates, NEW image \in Contents, NEW sent \in Nat, NEW n \in Nat,
           sent + n <= Len(image), NEW stored \in BOOLEAN, NEW chunk,
           chunk = SubSeq(image, sent + 1, sent + n),
           i.failed \/ ImportHolds(i, image, sent),
           ~ImportWrite(i, chunk, stored).failed
    PROVE  ImportHolds(ImportWrite(i, chunk, stored), image, sent + n)
  <1>1. chunk \in Contents /\ Len(chunk) = n /\ \A j \in 1..n : chunk[j] = image[sent + j]
    BY PartFacts
  <1>2. /\ ~i.failed /\ ~(i.offset + Len(chunk) > i.size) /\ ~HeaderRefused(i, chunk)
        /\ ImportWrite(i, chunk, stored) =
              [i EXCEPT !.header = Received(i, chunk), !.offset = @ + Len(chunk),
                        !.target = Overlaid(@, chunk, i.offset)]
    BY DEF ImportWrite, ImportStates
  <1>3. PICK w : w = ImportWrite(i, chunk, stored)
    OBVIOUS
  <1>4. /\ w.size = i.size /\ w.checked = i.checked /\ w.offset = i.offset + n
        /\ w.header = Received(i, chunk) /\ w.target = Overlaid(i.target, chunk, i.offset)
    BY <1>1, <1>2, <1>3 DEF ImportStates
  <1>5. ImportHolds(i, image, sent)
    BY <1>2
  <1>6. i.offset = sent /\ i.size \in Nat /\ i.checked \in BOOLEAN
    BY <1>5 DEF ImportHolds, ImportStates
  <1>7. w.offset = sent + n /\ sent + n <= w.size
    BY <1>1, <1>2, <1>4, <1>6
  <1>8. w.target = SubSeq(image, 1, sent + n)
    BY <1>4, <1>5, <1>6, PrefixGrows DEF ImportHolds
  <1>9. ASSUME i.checked
        PROVE  /\ ValidSize(w.size)
               /\ w.header \in Contents /\ Len(w.header) = HeaderLen
               /\ \A j \in 1..HeaderLen : j <= sent + n => w.header[j] = image[j]
               /\ sent + n >= HeaderLen => CheckImportHeader(w.header, w.size)
    <2>1. /\ ValidSize(i.size) /\ Len(i.header) = HeaderLen
          /\ \A j \in 1..HeaderLen : j <= sent => i.header[j] = image[j]
          /\ sent >= HeaderLen => CheckImportHeader(i.header, i.size)
      BY <1>5, <1>9 DEF ImportHolds
    <2>2. w.header \in Contents /\ Len(w.header) = HeaderLen
      BY <1>1, <1>4, <2>1, ReceivedFacts
    <2>3. ASSUME NEW j \in 1..HeaderLen, j <= sent + n
          PROVE  w.header[j] = image[j]
      <3>1. CASE j <= sent
        BY <1>1, <1>4, <1>6, <2>1, <3>1, ReceivedFacts
      <3>2. CASE ~(j <= sent)
        <4>1. j - sent \in 1..n /\ sent + (j - sent) = j
          BY <2>3, <3>2 DEF HeaderLen
        <4>2. w.header[j] = chunk[j - sent]
          <5>1. i.offset < j /\ j <= i.offset + Len(chunk)
            BY <1>1, <1>6, <2>3, <3>2 DEF HeaderLen
          <5>2. Received(i, chunk)[j] = chunk[j - i.offset]
            BY <1>1, <1>9, <2>1, <5>1, ReceivedFacts
          <5>. QED  BY <1>4, <1>6, <5>2
        <4>. QED  BY <1>1, <4>1, <4>2
      <3>. QED  BY <3>1, <3>2
    <2>4. ASSUME sent + n >= HeaderLen
          PROVE  CheckImportHeader(w.header, w.size)
      <3>1. CASE sent < HeaderLen
        BY <1>1, <1>2, <1>4, <1>6, <1>9, <2>4, <3>1 DEF HeaderRefused
      <3>2. CASE ~(sent < HeaderLen)
        <4>1. Received(i, chunk) = i.header
          BY <1>6, <3>2 DEF Received
        <4>. QED  BY <1>4, <2>1, <3>2, <4>1 DEF HeaderLen
      <3>. QED  BY <3>1, <3>2
    <2>. QED  BY <1>4, <2>1, <2>2, <2>3, <2>4
  <1>. QED  BY <1>3, <1>4, <1>7, <1>8, <1>9 DEF ImportHolds

\* A read moves the cursor over what it delivers, and not past the end.
LEMMA ReadFacts ==
    ASSUME NEW e \in ExportStates, e.offset <= e.size,
           NEW contents \in Contents, NEW n \in Nat, NEW read,
           read = ExportRead(e, contents, n)
    PROVE  /\ read.export \in ExportStates
           /\ read.export.offset <= read.export.size /\ read.export.size = e.size
           /\ Len(contents) = e.size =>
                 read.out = SubSeq(contents, e.offset + 1, read.export.offset)
  <1>1. PICK length \in Nat : /\ length = IF n < e.size - e.offset THEN n ELSE e.size - e.offset
                              /\ e.offset + length <= e.size
    BY DEF ExportStates
  <1>2. read = IF e.offset + length <= Len(contents)
               THEN [export |-> [e EXCEPT !.offset = @ + length],
                     out |-> SubSeq(contents, e.offset + 1, e.offset + length)]
               ELSE [export |-> e, out |-> <<>>]
    BY <1>1 DEF ExportRead
  <1>3. CASE e.offset + length <= Len(contents)
    <2>1. /\ read.export = [e EXCEPT !.offset = @ + length]
          /\ read.out = SubSeq(contents, e.offset + 1, e.offset + length)
      <3>1. read = [export |-> [e EXCEPT !.offset = @ + length],
                    out |-> SubSeq(contents, e.offset + 1, e.offset + length)]
        BY <1>2, <1>3, Zenon
      <3>. QED  BY <3>1 DEF ExportStates
    <2>2. read.export.size = e.size /\ read.export.offset = e.offset + length
      BY <2>1 DEF ExportStates
    <2>3. read.export \in ExportStates
      <3>1. e.offset + length \in Nat
        BY <1>1 DEF ExportStates
      <3>2. read.export = [e EXCEPT !.offset = e.offset + length]
        BY <2>1
      <3>. QED  BY <3>1, <3>2 DEF ExportStates
    <2>4. read.export.offset <= read.export.size
      BY <1>1, <2>2 DEF ExportStates
    <2>. QED  BY <2>1, <2>2, <2>3, <2>4
  <1>4. CASE ~(e.offset + length <= Len(contents))
    BY <1>1, <1>2, <1>4 DEF ExportStates
  <1>. QED  BY <1>3, <1>4

-----------------------------------------------------------------------------
(* What the steps share *)

\* A new file is one that nobody refers to.
LEMMA NewFileFacts ==
    ASSUME Unused # {}
    PROVE  NewFile \in Rcs /\ NewFile \notin Referenced
  BY DEF NewFile, Unused

\* Nothing looks at the imports but the imports.
LEMMA ImportsStay ==
    ASSUME ImportsInv, UNCHANGED imports
    PROVE  ImportsInv'
  BY DEF ImportsInv

\* An export whose file keeps its contents holds.
LEMMA ExportsStay ==
    ASSUME ExportsInv, UNCHANGED exports,
           \A e \in Exports : exports[e] # NoTransfer => data'[exports[e].file] = data[exports[e].file]
    PROVE  ExportsInv'
  BY DEF ExportsInv, ExportHolds

\* What is referred to keeps its contents when the rest is freed.
LEMMA KeptFacts ==
    ASSUME MemInv, UNCHANGED exports, Kept(data)
    PROVE  data' \in [Rcs -> Contents] /\ ExportsInv'
  <1>1. data' = [f \in Rcs |-> IF f \in Referenced' THEN data[f] ELSE <<>>]
    BY DEF Kept
  <1>2. data' \in [Rcs -> Contents]
    <2>1. <<>> \in Contents
      BY DEF Contents
    <2>. QED  BY <1>1, <2>1 DEF MemInv, FilesInv
  <1>3. ASSUME NEW e \in Exports, exports[e] # NoTransfer
        PROVE  data'[exports[e].file] = data[exports[e].file]
    <2>1. exports[e].file \in Rcs
      BY <1>3 DEF MemInv, ExportsInv, ExportHolds
    <2>2. exports[e].file \in Referenced'
      BY DEF Referenced
    <2>. QED  BY <1>1, <2>1, <2>2
  <1>. QED  BY <1>2, <1>3, ExportsStay DEF MemInv

-----------------------------------------------------------------------------
(* SQLite's callbacks and management *)

\* A new handle is on a file.
LEMMA BindFacts ==
    ASSUME FilesInv, NEW h \in Handles, NEW f \in Rcs, NEW n, NEW o, Bind(h, f, n, o)
    PROVE  /\ DOMAIN handles' = Handles
           /\ \A g \in Handles : handles'[g] # Closed => handles'[g].file \in Rcs
  BY DEF FilesInv, Bind, Open

\* xOpen writes nothing: every export's file is as it was.
LEMMA OpenStep ==
    ASSUME MemInv, NEW h \in Handles, NEW o \in OpenOptions,
           OpenAnonymous(h, o) \/ \E n \in Names : OpenExisting(h, n, o) \/ OpenNew(h, n, o)
    PROVE  MemInv'
  <1>1. data' = data /\ exports' = exports /\ imports' = imports
    BY DEF OpenAnonymous, OpenExisting, OpenNew
  <1>2. ExportsInv' /\ ImportsInv'
    BY <1>1, ExportsStay, ImportsStay DEF MemInv
  <1>3. FilesInv'
    <2>1. CASE OpenAnonymous(h, o)
      BY <1>1, <2>1, NewFileFacts, BindFacts DEF OpenAnonymous, MemInv, FilesInv, Open
    <2>2. ASSUME NEW n \in Names, OpenExisting(h, n, o)
          PROVE  FilesInv'
      <3>1. files[n] \in Rcs /\ Bind(h, files[n], n, o) /\ files' = files
        BY <2>2 DEF OpenExisting, MemInv, FilesInv
      <3>. QED  BY <1>1, <3>1, BindFacts DEF MemInv, FilesInv, Open
    <2>3. ASSUME NEW n \in Names, OpenNew(h, n, o)
          PROVE  FilesInv'
      <3>1. NewFile \in Rcs /\ Bind(h, NewFile, n, o) /\ files' = [files EXCEPT ![n] = NewFile]
        BY <2>3, NewFileFacts DEF OpenNew
      <3>2. files' \in [Names -> Rcs \cup {NoFile}]
        BY <3>1 DEF MemInv, FilesInv
      <3>. QED  BY <1>1, <3>1, <3>2, BindFacts DEF MemInv, FilesInv, Open
    <2>. QED  BY <2>1, <2>2, <2>3
  <1>. QED  BY <1>2, <1>3 DEF MemInv

\* A write or a truncation spoils the exports of its file and no other.
LEMMA WritingStep ==
    ASSUME MemInv, NEW f \in Rcs, NEW c \in Contents, data' = [data EXCEPT ![f] = c],
           Spoils(f), UNCHANGED <<files, handles, imports>>
    PROVE  MemInv'
  <1>1. FilesInv'
    BY DEF MemInv, FilesInv, Open
  <1>2. ASSUME NEW e \in Exports, exports'[e] # NoTransfer
        PROVE  ExportHolds(e)'
    <2>1. CASE exports[e].file = f
      <3>1. exports'[e] = [exports[e] EXCEPT !.image = Spoilt]
        BY <2>1 DEF Spoils
      <3>2. exports[e] # NoTransfer
        BY <1>2, <3>1 DEF NoTransfer
      <3>3. ExportHolds(e)
        BY <3>2 DEF MemInv, ExportsInv
      <3>. QED  BY <3>1, <3>3 DEF ExportHolds
    <2>2. CASE exports[e].file # f
      <3>1. exports'[e] = exports[e]
        BY <2>2 DEF Spoils
      <3>2. ExportHolds(e)
        BY <1>2, <3>1 DEF MemInv, ExportsInv
      <3>3. data'[exports[e].file] = data[exports[e].file]
        BY <2>2, <3>2 DEF ExportHolds, MemInv, FilesInv
      <3>. QED  BY <3>1, <3>2, <3>3 DEF ExportHolds
    <2>. QED  BY <2>1, <2>2
  <1>3. DOMAIN exports' = Exports
    BY DEF Spoils
  <1>. QED  BY <1>1, <1>2, <1>3, ImportsStay DEF MemInv, ExportsInv

\* xWrite.
LEMMA WriteStep ==
    ASSUME MemInv, NEW h \in Handles, NEW buf \in Buffers, NEW offset \in Offsets,
           Write(h, buf, offset)
    PROVE  MemInv'
  <1>1. PICK f \in Rcs : f = handles[h].file
    BY DEF Write, MemInv, FilesInv
  <1>2. PICK c \in Contents : c = Overlaid(data[f], buf, offset)
    BY ContentsAssumption, OverlaidType DEF Contents, MemInv, FilesInv
  <1>. QED  BY <1>1, <1>2, WritingStep DEF Write

\* xTruncate.
LEMMA TruncateStep ==
    ASSUME MemInv, NEW h \in Handles, NEW size \in Offsets, Truncate(h, size)
    PROVE  MemInv'
  <1>1. PICK f \in Rcs : f = handles[h].file
    BY DEF Truncate, MemInv, FilesInv
  <1>2. data[f] \in Contents /\ size \in Nat /\ size <= Len(data[f])
    BY <1>1, ContentsAssumption DEF Truncate, MemInv, FilesInv
  <1>3. PICK c \in Contents : c = SubSeq(data[f], 1, size)
    BY <1>2, HeadFacts
  <1>. QED  BY <1>1, <1>3, WritingStep DEF Truncate

\* Names go, by xClose, xDelete or clear; what is referred to stays.
LEMMA RemovalStep ==
    ASSUME MemInv, (\E h \in Handles : Close(h)) \/ (\E n \in Names : Remove(n)) \/ Clear
    PROVE  MemInv'
  <1>1. Kept(data) /\ exports' = exports /\ imports' = imports
    BY DEF Close, Remove, Clear
  <1>2. data' \in [Rcs -> Contents] /\ ExportsInv' /\ ImportsInv'
    BY <1>1, KeptFacts, ImportsStay DEF MemInv
  <1>3. files' \in [Names -> Rcs \cup {NoFile}]
    BY DEF Close, Remove, Clear, MemInv, FilesInv
  <1>4. DOMAIN handles' = Handles /\ \A h \in Handles : handles'[h] # Closed => handles'[h].file \in Rcs
    BY DEF Close, Remove, Clear, MemInv, FilesInv, Open
  <1>. QED  BY <1>2, <1>3, <1>4 DEF MemInv, FilesInv, Open

-----------------------------------------------------------------------------
(* Transfers in steps *)

\* Steps of an import before its end touch nothing but the import.
LEMMA ImportingStep ==
    ASSUME MemInv, UNCHANGED <<files, data, handles, exports>>, ImportsInv'
    PROVE  MemInv'
  <1>1. FilesInv'
    BY DEF MemInv, FilesInv, Open
  <1>. QED  BY <1>1, ExportsStay DEF MemInv

\* begin_import.
LEMMA BeginImportStep ==
    ASSUME MemInv, NEW i \in Imports, NEW n \in Names, NEW image \in Images, NEW size \in Sizes,
           NEW checked \in BOOLEAN, BeginImport(i, n, image, size, checked)
    PROVE  MemInv'
  <1>1. image \in Contents /\ size \in Nat
    BY ContentsAssumption DEF Contents
  <1>2. PICK new : new = NewImport(size, checked)
    OBVIOUS
  <1>3. NoHeader \in Contents /\ Len(NoHeader) = HeaderLen /\ <<>> \in Contents
    BY DEF NoHeader, HeaderLen, Contents
  <1>4. new \in ImportStates
    BY <1>1, <1>2, <1>3 DEF NewImport, ImportStates
  <1>5. ImportHolds(new, image, 0)
    <2>1. SubSeq(image, 1, 0) = <<>>
      BY SubSeqEmpty
    <2>2. checked => ValidSize(size)
      BY DEF BeginImport
    <2>3. /\ new.offset = 0 /\ new.size = size /\ new.target = <<>> /\ new.checked = checked
          /\ new.header = NoHeader
      BY <1>2 DEF NewImport
    <2>. QED  BY <1>1, <1>3, <2>1, <2>2, <2>3 DEF ImportHolds, HeaderLen
  <1>6. /\ imports' = [imports EXCEPT ![i] =
                [name |-> n, image |-> image, sent |-> 0, import |-> new]]
        /\ UNCHANGED <<files, data, handles, exports>>
    BY <1>2 DEF BeginImport
  <1>7. ASSUME NEW j \in Imports, imports'[j] # NoTransfer
        PROVE  /\ imports'[j] \in ImportRecords
               /\ imports'[j].sent <= Len(imports'[j].image)
               /\ \/ imports'[j].import.failed
                  \/ ImportHolds(imports'[j].import, imports'[j].image, imports'[j].sent)
    <2>1. CASE j = i
      <3>1. imports'[j] = [name |-> n, image |-> image, sent |-> 0, import |-> new]
        BY <1>6, <2>1 DEF MemInv, ImportsInv
      <3>2. 0 <= Len(image)
        BY <1>1 DEF Contents
      <3>. QED  BY <1>1, <1>4, <1>5, <3>1, <3>2 DEF ImportRecords
    <2>2. CASE j # i
      <3>1. imports'[j] = imports[j]
        BY <1>6, <2>2 DEF MemInv, ImportsInv
      <3>. QED  BY <1>7, <3>1 DEF MemInv, ImportsInv
    <2>. QED  BY <2>1, <2>2
  <1>8. ImportsInv'
    BY <1>6, <1>7 DEF MemInv, ImportsInv
  <1>. QED  BY <1>6, <1>8, ImportingStep

\* DbImport::write, of any chunk.
LEMMA SendChunkStep ==
    ASSUME MemInv, NEW i \in Imports, NEW n \in Nat, NEW stored \in BOOLEAN,
           SendChunk(i, n, stored)
    PROVE  MemInv'
  <1>1. PICK image \in Contents, sent \in Nat, import \in ImportStates :
            /\ image = imports[i].image /\ sent = imports[i].sent /\ import = imports[i].import
            /\ import.failed \/ ImportHolds(import, image, sent)
    BY DEF SendChunk, MemInv, ImportsInv, ImportRecords
  <1>2. PICK chunk : chunk = SubSeq(image, sent + 1, sent + n)
    OBVIOUS
  <1>3. sent + n <= Len(image) /\ chunk \in Contents
    BY <1>1, <1>2, PartFacts DEF SendChunk
  <1>4. PICK w \in ImportStates : w = ImportWrite(import, chunk, stored)
    BY <1>3, WriteType
  <1>5. w.failed \/ ImportHolds(w, image, sent + n)
    BY <1>1, <1>2, <1>3, <1>4, WriteHolds
  <1>6. /\ imports' = [imports EXCEPT ![i] =
                          [imports[i] EXCEPT !.sent = sent + n, !.import = w]]
        /\ UNCHANGED <<files, data, handles, exports>>
    BY <1>1, <1>2, <1>4 DEF SendChunk
  <1>7. ASSUME NEW j \in Imports, imports'[j] # NoTransfer
        PROVE  /\ imports'[j] \in ImportRecords
               /\ imports'[j].sent <= Len(imports'[j].image)
               /\ \/ imports'[j].import.failed
                  \/ ImportHolds(imports'[j].import, imports'[j].image, imports'[j].sent)
    <2>1. CASE j = i
      <3>1. imports'[j] = [imports[i] EXCEPT !.sent = sent + n, !.import = w]
        BY <1>6, <2>1 DEF MemInv, ImportsInv
      <3>2. imports[i] \in ImportRecords
        BY DEF SendChunk, MemInv, ImportsInv
      <3>3. /\ imports'[j] \in ImportRecords /\ imports'[j].sent = sent + n
            /\ imports'[j].import = w /\ imports'[j].image = image
        <4>1. sent + n \in Nat
          OBVIOUS
        <4>2. imports'[j].sent = sent + n /\ imports'[j].import = w /\ imports'[j].image = image
          BY <1>1, <3>1, <3>2 DEF ImportRecords
        <4>3. imports'[j] \in ImportRecords
          BY <3>1, <3>2, <4>1 DEF ImportRecords
        <4>. QED  BY <4>2, <4>3
      <3>. QED  BY <1>3, <1>5, <3>3
    <2>2. CASE j # i
      <3>1. imports'[j] = imports[j]
        BY <1>6, <2>2 DEF MemInv, ImportsInv
      <3>. QED  BY <1>7, <3>1 DEF MemInv, ImportsInv
    <2>. QED  BY <2>1, <2>2
  <1>8. ImportsInv'
    BY <1>6, <1>7 DEF MemInv, ImportsInv
  <1>. QED  BY <1>6, <1>8, ImportingStep

\* An import that ends is gone, however it ends.
LEMMA ImportGone ==
    ASSUME MemInv, NEW i \in Imports, imports' = [imports EXCEPT ![i] = NoTransfer]
    PROVE  ImportsInv'
  <1>1. \A j \in Imports : imports'[j] # NoTransfer => imports'[j] = imports[j]
    BY DEF MemInv, ImportsInv
  <1>. QED  BY <1>1 DEF MemInv, ImportsInv

\* commit binds the name to a new file, which no export reads.
LEMMA FinishImportStep ==
    ASSUME MemInv, NEW i \in Imports, FinishImport(i)
    PROVE  MemInv'
  <1>1. PICK f \in Rcs : f = NewFile /\ f \notin Referenced
    BY NewFileFacts DEF FinishImport, CanCommit
  <1>2. PICK c \in Contents : c = Finished(imports[i].import)
    <2>1. imports[i].import \in ImportStates
      BY DEF FinishImport, MemInv, ImportsInv, ImportRecords
    <2>2. imports[i].import.target \in Contents
      BY <2>1 DEF ImportStates
    <2>3. <<Rollback>> \in Contents /\ HeaderLen \in Nat
      BY ScaleAssumption DEF Contents, HeaderLen
    <2>. QED  BY <2>2, <2>3, OverlaidType DEF Finished
  <1>3. /\ files' = [files EXCEPT ![imports[i].name] = f] /\ data' = [data EXCEPT ![f] = c]
        /\ imports' = [imports EXCEPT ![i] = NoTransfer] /\ UNCHANGED <<handles, exports>>
    BY <1>1, <1>2 DEF FinishImport
  <1>4. FilesInv'
    BY <1>3 DEF MemInv, FilesInv, Open
  <1>5. ASSUME NEW e \in Exports, exports[e] # NoTransfer
        PROVE  data'[exports[e].file] = data[exports[e].file]
    <2>1. exports[e].file \in Rcs
      BY <1>5 DEF MemInv, ExportsInv, ExportHolds
    <2>2. exports[e].file # f
      BY <1>1 DEF Referenced
    <2>. QED  BY <1>3, <2>1, <2>2 DEF MemInv, FilesInv
  <1>. QED  BY <1>3, <1>4, <1>5, ExportsStay, ImportGone DEF MemInv

\* open_export takes a reference to the file.
LEMMA BeginExportStep ==
    ASSUME MemInv, NEW e \in Exports, NEW n \in Names, BeginExport(e, n)
    PROVE  MemInv'
  <1>1. PICK f \in Rcs : f = files[n]
    BY DEF BeginExport, MemInv, FilesInv
  <1>2. PICK c \in Contents : c = data[f] /\ Len(c) \in Nat
    BY <1>1 DEF MemInv, FilesInv, Contents
  <1>3. PICK new : new = [file |-> f, name |-> n, export |-> [size |-> Len(c), offset |-> 0],
                          image |-> c, faithful |-> TRUE]
    OBVIOUS
  <1>4. exports' = [exports EXCEPT ![e] = new] /\ UNCHANGED <<files, data, handles, imports>>
    BY <1>1, <1>2, <1>3 DEF BeginExport, NewExport
  <1>5. ASSUME NEW g \in Exports, exports'[g] # NoTransfer
        PROVE  ExportHolds(g)'
    <2>1. CASE g = e
      <3>1. exports'[g] = new
        BY <1>4, <2>1 DEF MemInv, ExportsInv
      <3>2. new \in [file : Rcs, name : Names, export : ExportStates,
                     image : Contents \cup {Spoilt}, faithful : {TRUE}]
        BY <1>2, <1>3 DEF ExportStates
      <3>3. /\ exports'[g].file = f /\ exports'[g].image = c
            /\ exports'[g].export.offset = 0 /\ exports'[g].export.size = Len(c)
        BY <1>3, <3>1
      <3>4. data'[f] = c
        BY <1>2, <1>4
      <3>5. /\ exports'[g].export.offset <= exports'[g].export.size
            /\ data'[exports'[g].file] = exports'[g].image
            /\ Len(exports'[g].image) = exports'[g].export.size
        BY <1>2, <3>3, <3>4
      <3>. QED  BY <3>1, <3>2, <3>5 DEF ExportHolds
    <2>2. CASE g # e
      <3>1. exports'[g] = exports[g]
        BY <1>4, <2>2 DEF MemInv, ExportsInv
      <3>. QED  BY <1>4, <1>5, <3>1 DEF MemInv, ExportsInv, ExportHolds
    <2>. QED  BY <2>1, <2>2
  <1>6. FilesInv' /\ ExportsInv'
    BY <1>4, <1>5 DEF MemInv, FilesInv, ExportsInv, Open
  <1>. QED  BY <1>4, <1>6, ImportsStay DEF MemInv

\* DbExport::read.
LEMMA ReadExportStep ==
    ASSUME MemInv, NEW e \in Exports, NEW n \in Nat, ReadExport(e, n)
    PROVE  MemInv'
  <1>1. exports[e] # NoTransfer /\ ExportHolds(e)
    BY DEF ReadExport, MemInv, ExportsInv
  <1>2. PICK f \in Rcs, x \in ExportStates, c \in Contents :
            /\ f = exports[e].file /\ x = exports[e].export /\ c = data[f]
            /\ x.offset <= x.size
    BY <1>1 DEF ExportHolds, MemInv, FilesInv
  <1>3. PICK read : read = ExportRead(x, c, n)
    OBVIOUS
  <1>4. /\ read.export \in ExportStates
        /\ read.export.offset <= read.export.size /\ read.export.size = x.size
        /\ Len(c) = x.size => read.out = SubSeq(c, x.offset + 1, read.export.offset)
    <2>1. x.offset <= x.size
      BY <1>2
    <2>. QED  BY <1>3, <2>1, ReadFacts
  <1>5. Delivers(e, read)
    BY <1>1, <1>2, <1>4 DEF Delivers, ExportHolds
  <1>6. (exports[e].faithful /\ Delivers(e, read)) = TRUE
    BY <1>1, <1>5 DEF ExportHolds
  <1>7. /\ exports' = [exports EXCEPT ![e] =
                          [exports[e] EXCEPT !.export = read.export,
                                             !.faithful = exports[e].faithful /\ Delivers(e, read)]]
        /\ UNCHANGED <<files, data, handles, imports>>
    BY <1>2, <1>3 DEF ReadExport, Source
  <1>8. exports'[e] = [exports[e] EXCEPT !.export = read.export, !.faithful = TRUE]
    BY <1>6, <1>7 DEF MemInv, ExportsInv
  <1>9. ASSUME NEW g \in Exports, exports'[g] # NoTransfer
        PROVE  ExportHolds(g)'
    <2>1. CASE g = e
      <3>1. exports[e] \in [file : Rcs, name : Names, export : ExportStates,
                            image : Contents \cup {Spoilt}, faithful : {TRUE}]
        BY <1>1 DEF ExportHolds
      <3>2. exports'[g] \in [file : Rcs, name : Names, export : ExportStates,
                            image : Contents \cup {Spoilt}, faithful : {TRUE}]
        BY <1>4, <1>8, <2>1, <3>1
      <3>3. /\ exports'[g].file = exports[e].file /\ exports'[g].image = exports[e].image
            /\ exports'[g].export = read.export
        BY <1>8, <2>1, <3>1
      <3>. QED  BY <1>1, <1>2, <1>4, <1>7, <3>2, <3>3 DEF ExportHolds
    <2>2. CASE g # e
      <3>1. exports'[g] = exports[g]
        BY <1>7, <2>2 DEF MemInv, ExportsInv
      <3>. QED  BY <1>7, <1>9, <3>1 DEF MemInv, ExportsInv, ExportHolds
    <2>. QED  BY <2>1, <2>2
  <1>10. DOMAIN exports' = Exports
    BY <1>7 DEF MemInv, ExportsInv
  <1>11. FilesInv' /\ ExportsInv'
    BY <1>7, <1>9, <1>10 DEF MemInv, FilesInv, ExportsInv, Open
  <1>. QED  BY <1>7, <1>11, ImportsStay DEF MemInv

\* A dropped export gives its reference up.
LEMMA DropExportStep ==
    ASSUME MemInv, NEW e \in Exports, DropExport(e)
    PROVE  MemInv'
  <1>1. /\ exports' = [exports EXCEPT ![e] = NoTransfer]
        /\ data' = [f \in Rcs |-> IF f \in Referenced' THEN data[f] ELSE <<>>]
        /\ UNCHANGED <<files, handles, imports>>
    BY DEF DropExport, Kept
  <1>2. data' \in [Rcs -> Contents]
    <2>1. <<>> \in Contents
      BY DEF Contents
    <2>. QED  BY <1>1, <2>1 DEF MemInv, FilesInv
  <1>3. ASSUME NEW g \in Exports, exports'[g] # NoTransfer
        PROVE  ExportHolds(g)'
    <2>1. exports'[g] = exports[g]
      BY <1>1, <1>3 DEF MemInv, ExportsInv
    <2>2. ExportHolds(g)
      BY <1>3, <2>1 DEF MemInv, ExportsInv
    <2>3. exports[g].file \in Rcs /\ exports'[g].file \in Referenced'
      BY <2>2 DEF ExportHolds, Referenced
    <2>4. data'[exports[g].file] = data[exports[g].file]
      BY <1>1, <2>1, <2>3
    <2>. QED  BY <2>1, <2>2, <2>4 DEF ExportHolds
  <1>4. FilesInv' /\ ExportsInv'
    BY <1>1, <1>2, <1>3 DEF MemInv, FilesInv, ExportsInv, Open
  <1>. QED  BY <1>1, <1>4, ImportsStay DEF MemInv

-----------------------------------------------------------------------------
(* The theorems *)

\* Names and handles refer to files, and every transfer under way has exactly
\* what it took over so far.
THEOREM MemInvariant == Spec => []MemInv
  <1>1. Init => MemInv
    <2>. SUFFICES ASSUME Init
                  PROVE  MemInv
      OBVIOUS
    <2>1. <<>> \in Contents
      BY DEF Contents
    <2>. QED  BY <2>1 DEF Init, MemInv, FilesInv, ExportsInv, ImportsInv, Open
  <1>2. MemInv /\ [Next]_vars => MemInv'
    <2>. SUFFICES ASSUME MemInv, [Next]_vars
                  PROVE  MemInv'
      OBVIOUS
    <2>1. CASE \E h \in Handles, o \in OpenOptions :
                  \/ OpenAnonymous(h, o)
                  \/ \E n \in Names : OpenExisting(h, n, o) \/ OpenNew(h, n, o)
      BY <2>1, OpenStep
    <2>2. CASE \E h \in Handles, buf \in Buffers, offset \in Offsets : Write(h, buf, offset)
      BY <2>2, WriteStep
    <2>3. CASE \E h \in Handles, size \in Offsets : Truncate(h, size)
      BY <2>3, TruncateStep
    <2>4. CASE (\E h \in Handles : Close(h)) \/ (\E n \in Names : Remove(n)) \/ Clear
      BY <2>4, RemovalStep
    <2>5. CASE \E i \in Imports, n \in Names, image \in Images, size \in Sizes, checked \in BOOLEAN :
                  BeginImport(i, n, image, size, checked)
      BY <2>5, BeginImportStep
    <2>6. \A n \in 0..MaxLen : n \in Nat
      OBVIOUS
    <2>7. CASE \E i \in Imports, n \in 0..MaxLen, stored \in BOOLEAN : SendChunk(i, n, stored)
      BY <2>6, <2>7, SendChunkStep
    <2>8. CASE \E i \in Imports : FinishImport(i)
      BY <2>8, FinishImportStep
    <2>9. CASE \E i \in Imports : StopImport(i)
      BY <2>9, ImportGone, ImportingStep DEF StopImport
    <2>10. CASE \E e \in Exports, n \in Names : BeginExport(e, n)
      BY <2>10, BeginExportStep
    <2>11. CASE \E e \in Exports, n \in 0..MaxLen : ReadExport(e, n)
      BY <2>6, <2>11, ReadExportStep
    <2>12. CASE \E e \in Exports : DropExport(e)
      BY <2>12, DropExportStep
    <2>13. CASE UNCHANGED vars
      BY <2>13, ImportsStay, ImportingStep DEF vars, MemInv
    <2>. QED  BY <2>1, <2>2, <2>3, <2>4, <2>5, <2>7, <2>8, <2>9, <2>10, <2>11, <2>12, <2>13
              DEF Next
  <1>. QED  BY <1>1, <1>2, PTL DEF Spec

\* An export delivers what its file held when it began, to the last cell,
\* whatever becomes of the name, unless that very file is written to.
THEOREM ExportsDeliver == Spec => []ExportsDeliverTheFile
  <1>1. MemInv => ExportsDeliverTheFile
    BY DEF MemInv, ExportsInv, ExportHolds, ExportsDeliverTheFile
  <1>. QED  BY <1>1, MemInvariant, PTL

\* An open or an import never takes a name from the file that has it.
THEOREM NamesStayBound == Spec => NamesAreNotTaken
  <1>1. ASSUME MemInv, [Next]_vars, NEW n \in Names, files[n] # NoFile
        PROVE  files'[n] \in {files[n], NoFile}
    BY <1>1 DEF Next, vars, OpenAnonymous, OpenExisting, OpenNew, Write, Truncate, Close, Remove,
                Clear, BeginImport, SendChunk, FinishImport, CanCommit, StopImport, BeginExport,
                ReadExport, DropExport, MemInv, FilesInv
  <1>2. MemInv /\ [Next]_vars =>
            [\A n \in Names : files[n] # NoFile => files'[n] \in {files[n], NoFile}]_vars
    BY <1>1
  <1>. QED  BY <1>2, MemInvariant, PTL DEF Spec, NamesAreNotTaken

\* xClose of a DELETEONCLOSE file takes the name of the file it closes, never
\* that of another file created under the same name since.
THEOREM ClosesSpareOthers == Spec => CloseSparesReplacements
  <1>1. ASSUME MemInv, [Next]_vars, NEW n \in Names, NEW h \in Handles, Open(h),
               handles'[h] = Closed, files'[n] # files[n]
        PROVE  files[n] = handles[h].file
    <2>1. ASSUME NEW g \in Handles, Close(g)
          PROVE  files[n] = handles[h].file
      <3>1. g = h
        BY <1>1, <2>1 DEF Close, Open, MemInv, FilesInv
      <3>. QED  BY <1>1, <2>1, <3>1 DEF Close, Goes, MemInv, FilesInv
    <2>2. ASSUME NEW g \in Handles, NEW o, OpenAnonymous(g, o) \/ \E m \in Names : OpenExisting(g, m, o)
          PROVE  FALSE
      BY <1>1, <2>2 DEF OpenAnonymous, OpenExisting
    <2>3. ASSUME NEW g \in Handles, NEW o, NEW m \in Names, OpenNew(g, m, o)
          PROVE  FALSE
      <3>1. g # h
        BY <1>1, <2>3 DEF OpenNew
      <3>2. handles'[h] = handles[h]
        BY <2>3, <3>1 DEF OpenNew, Bind, MemInv, FilesInv
      <3>. QED  BY <1>1, <3>2 DEF Open
    <2>. QED  BY <1>1, <2>1, <2>2, <2>3
              DEF Next, vars, Write, Truncate, Remove, Clear, BeginImport, SendChunk,
                  FinishImport, StopImport, BeginExport, ReadExport, DropExport, Open
  <1>2. MemInv /\ [Next]_vars =>
            [\A n \in Names, h \in Handles :
                Open(h) /\ handles'[h] = Closed /\ files'[n] # files[n] =>
                    files[n] = handles[h].file]_vars
    BY <1>1
  <1>. QED  BY <1>2, MemInvariant, PTL DEF Spec, CloseSparesReplacements

\* What is committed of an import that is complete.
LEMMA CompleteFacts ==
    ASSUME NEW import \in ImportStates, NEW image \in Contents, NEW sent \in Nat,
           sent <= Len(image), Complete(import),
           import.failed \/ ImportHolds(import, image, sent),
           NEW part, part = SubSeq(image, 1, sent)
    PROVE  /\ Len(part) = import.size
           /\ Acceptable(part, import.checked)
           /\ Finished(import) = IF import.checked THEN InRollbackMode(part) ELSE part
  <1>1. /\ sent = import.size /\ import.target = part
        /\ part \in Contents /\ Len(part) = sent /\ \A j \in 1..sent : part[j] = image[j]
    BY HeadFacts DEF Complete, ImportHolds
  <1>2. ASSUME import.checked
        PROVE  /\ Len(part) >= Sector /\ Len(part) % Sector = 0
               /\ part[1] = Signature
               /\ PageSize(part) \in PageSizes
               /\ Len(part) % PageSize(part) = 0
               /\ Len(part) > HeaderLen
    <2>1. /\ ValidSize(import.size)
          /\ \A j \in 1..HeaderLen : j <= sent => import.header[j] = image[j]
          /\ sent >= HeaderLen => CheckImportHeader(import.header, import.size)
      BY <1>2 DEF ImportHolds, Complete
    <2>2. sent >= Sector /\ sent % Sector = 0 /\ sent > HeaderLen
      BY <1>1, <2>1, ScaleAssumption DEF ValidSize, HeaderLen
    <2>3. import.header[1] = part[1] /\ import.header[2] = part[2]
      BY <1>1, <2>1, <2>2 DEF HeaderLen
    <2>4. CheckImportHeader(import.header, import.size)
      BY <2>1, <2>2 DEF HeaderLen
    <2>5. PageSize(import.header) = PageSize(part)
      BY <2>3 DEF PageSize
    <2>. QED  BY <1>1, <2>2, <2>3, <2>4, <2>5 DEF CheckImportHeader
  <1>3. CASE import.checked
    <2>1. HeaderLen + 1 \in 1..Len(part) /\ HeaderLen = 2 /\ Len(part) \in Nat
      BY <1>1, <1>2, <1>3 DEF HeaderLen
    <2>2. PICK tail : tail = <<Rollback>>
      OBVIOUS
    <2>3. tail \in Contents /\ Len(tail) = 1 /\ tail[1] = Rollback
      BY <2>2, ScaleAssumption DEF Contents
    <2>4. PICK o : o = Overlaid(part, tail, HeaderLen)
      OBVIOUS
    <2>5. /\ o \in Contents
          /\ Len(o) = IF HeaderLen + Len(tail) > Len(part) THEN HeaderLen + Len(tail) ELSE Len(part)
          /\ \A j \in 1..Len(o) :
                o[j] = IF HeaderLen < j /\ j <= HeaderLen + Len(tail) THEN tail[j - HeaderLen]
                       ELSE IF j <= Len(part) THEN part[j] ELSE 0
      <3>1. HeaderLen \in Nat
        BY DEF HeaderLen
      <3>2. part \in Contents /\ tail \in Contents
        BY <1>1, <2>3
      <3>3. PICK off \in Nat : off = HeaderLen
        BY <3>1
      <3>4. /\ Overlaid(part, tail, off) \in Contents
            /\ Len(Overlaid(part, tail, off)) =
                  IF off + Len(tail) > Len(part) THEN off + Len(tail) ELSE Len(part)
            /\ \A j \in 1..Len(Overlaid(part, tail, off)) :
                  Overlaid(part, tail, off)[j] =
                     IF off < j /\ j <= off + Len(tail) THEN tail[j - off]
                     ELSE IF j <= Len(part) THEN part[j] ELSE 0
        BY <3>2, OverlaidType
      <3>. QED  BY <2>4, <3>3, <3>4
    <2>6. Len(o) = Len(part)
      BY <2>1, <2>3, <2>5
    <2>7. /\ InRollbackMode(part) \in Contents /\ Len(InRollbackMode(part)) = Len(part)
          /\ \A j \in 1..Len(part) :
                InRollbackMode(part)[j] = IF j = HeaderLen + 1 THEN Rollback ELSE part[j]
      <3>1. PICK k \in 1..Len(part) : k = HeaderLen + 1
        BY <2>1
      <3>2. InRollbackMode(part) = [part EXCEPT ![k] = Rollback]
        BY <3>1 DEF InRollbackMode
      <3>3. part \in Seq(Nat) /\ Rollback \in Nat
        BY <1>1, ScaleAssumption DEF Contents
      <3>4. /\ [part EXCEPT ![k] = Rollback] \in Seq(Nat)
            /\ Len([part EXCEPT ![k] = Rollback]) = Len(part)
            /\ \A j \in 1..Len(part) :
                  [part EXCEPT ![k] = Rollback][j] = IF j = k THEN Rollback ELSE part[j]
        <4>1. DOMAIN part = 1..Len(part)
          BY <3>3
        <4>2. /\ [part EXCEPT ![k] = Rollback] \in Seq(Nat)
              /\ Len([part EXCEPT ![k] = Rollback]) = Len(part)
          BY <3>3, ExceptSeq
        <4>. QED  BY <4>1, <4>2
      <3>. QED  BY <3>1, <3>2, <3>4 DEF Contents
    <2>8. ASSUME NEW j \in 1..Len(part)
          PROVE  o[j] = InRollbackMode(part)[j]
      <3>1. CASE j = HeaderLen + 1
        BY <2>1, <2>3, <2>5, <2>6, <2>7, <3>1
      <3>2. CASE j # HeaderLen + 1
        <4>1. ~(HeaderLen < j /\ j <= HeaderLen + Len(tail)) /\ j <= Len(part)
          BY <2>1, <2>3, <3>2
        <4>. QED  BY <2>5, <2>6, <2>7, <3>2, <4>1
      <3>. QED  BY <3>1, <3>2
    <2>9. o = InRollbackMode(part)
      BY <2>5, <2>6, <2>7, <2>8, SeqEqual DEF Contents
    <2>10. Finished(import) = o
      BY <1>1, <1>3, <2>2, <2>4 DEF Finished
    <2>. QED  BY <1>1, <1>2, <1>3, <2>9, <2>10 DEF Acceptable
  <1>4. CASE ~import.checked
    BY <1>1, <1>4 DEF Acceptable, Finished
  <1>. QED  BY <1>3, <1>4

\* What an import publishes is what was sent, whole, of the announced size, and
\* for a checked one acceptable and in rollback mode, however it was cut.
THEOREM ImportsPublish == Spec => ImportsPublishTheImage
  <1>. DEFINE Published(i) ==
            LET import == imports[i].import
                sent == SubSeq(imports[i].image, 1, imports[i].sent)
                n == imports[i].name
            IN  imports[i] # NoTransfer /\ imports'[i] = NoTransfer /\ files'[n] # files[n] =>
                    /\ Len(sent) = import.size
                    /\ Acceptable(sent, import.checked)
                    /\ data'[files'[n]] = IF import.checked THEN InRollbackMode(sent) ELSE sent
  <1>1. ASSUME MemInv, [Next]_vars, NEW i \in Imports, imports[i] # NoTransfer,
               imports'[i] = NoTransfer, files'[imports[i].name] # files[imports[i].name]
        PROVE  FinishImport(i)
    <2>1. ASSUME NEW j \in Imports, FinishImport(j)
          PROVE  j = i
      BY <1>1, <2>1 DEF FinishImport, MemInv, ImportsInv
    <2>. QED  BY <1>1, <2>1
              DEF Next, vars, OpenAnonymous, OpenExisting, OpenNew, Write, Truncate, Close, Remove,
                  Clear, BeginImport, SendChunk, StopImport, BeginExport, ReadExport, DropExport
  <1>2. ASSUME MemInv, [Next]_vars, NEW i \in Imports
        PROVE  Published(i)
    <2>1. SUFFICES ASSUME imports[i] # NoTransfer, imports'[i] = NoTransfer,
                          files'[imports[i].name] # files[imports[i].name]
                   PROVE  LET sent == SubSeq(imports[i].image, 1, imports[i].sent)
                          IN  /\ Len(sent) = imports[i].import.size
                              /\ Acceptable(sent, imports[i].import.checked)
                              /\ data'[files'[imports[i].name]] =
                                    IF imports[i].import.checked
                                    THEN InRollbackMode(sent) ELSE sent
      OBVIOUS
    <2>2. FinishImport(i)
      BY <1>1, <1>2, <2>1
    <2>3. PICK image \in Contents, sent \in Nat, import \in ImportStates, n \in Names :
              /\ image = imports[i].image /\ sent = imports[i].sent /\ import = imports[i].import
              /\ n = imports[i].name /\ sent <= Len(image)
              /\ import.failed \/ ImportHolds(import, image, sent)
      BY <1>2, <2>1 DEF MemInv, ImportsInv, ImportRecords
    <2>4. Complete(import) /\ NewFile \in Rcs
      BY <2>2, <2>3, NewFileFacts DEF FinishImport, CanCommit
    <2>5. files'[n] = NewFile /\ data'[NewFile] = Finished(import)
      BY <1>2, <2>2, <2>3, <2>4 DEF FinishImport, MemInv, FilesInv
    <2>6. PICK part : part = SubSeq(image, 1, sent)
      OBVIOUS
    <2>7. /\ Len(part) = import.size
          /\ Acceptable(part, import.checked)
          /\ Finished(import) = IF import.checked THEN InRollbackMode(part) ELSE part
      BY <2>3, <2>4, <2>6, CompleteFacts, Zenon
    <2>. QED  BY <2>3, <2>5, <2>6, <2>7
  <1>3. MemInv /\ [Next]_vars => [\A i \in Imports : Published(i)]_vars
    BY <1>2
  <1>. QED  BY <1>3, MemInvariant, PTL DEF Spec, ImportsPublishTheImage

==============================================================================
