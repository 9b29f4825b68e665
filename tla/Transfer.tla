------------------------------- MODULE Transfer -------------------------------
(***************************************************************************)
(* DbImport and DbExport (crates/rsqlite-vfs/src/transfer.rs): an image    *)
(* sent or fetched in chunks of the caller's choice, over a target that is *)
(* published when the import is complete, and a source that is kept.       *)
(*                                                                         *)
(* An image is a sequence of cells.  The 18 bytes of the header that an    *)
(* import checks are two cells, the signature and the page size; the read  *)
(* and write versions behind them are the third.  Sector stands for 512    *)
(* bytes, MaxPage for 65536.                                               *)
(***************************************************************************)
EXTENDS FileBytes

CONSTANTS Signature, Rollback, Sector, PageSizes, MaxPage

ASSUME ScaleAssumption ==
    /\ Sector \in Nat /\ Sector > 2 /\ PageSizes \subseteq Nat \ {0} /\ MaxPage \in PageSizes
    /\ Rollback \in Nat

HeaderLen == 2
NoHeader == <<0, 0>>

-----------------------------------------------------------------------------
(* Importing *)

ValidSize(size) == size >= Sector /\ size % Sector = 0

PageSize(header) == IF header[2] = 1 THEN MaxPage ELSE header[2]

CheckImportHeader(header, size) ==
    /\ ValidSize(size)
    /\ header[1] = Signature
    /\ PageSize(header) \in PageSizes
    /\ size % PageSize(header) = 0

NewImport(size, checked) ==
    [size |-> size, checked |-> checked, offset |-> 0, header |-> NoHeader,
     failed |-> FALSE, target |-> <<>>]

\* The part of the header in a chunk that begins at the import's offset.
Received(i, chunk) ==
    IF i.checked /\ i.offset < HeaderLen
    THEN Overlaid(i.header,
                  SubSeq(chunk, 1, IF Len(chunk) < HeaderLen - i.offset
                                   THEN Len(chunk) ELSE HeaderLen - i.offset),
                  i.offset)
    ELSE i.header

\* The header is checked by the write that completes it.
HeaderRefused(i, chunk) ==
    /\ i.checked /\ i.offset < HeaderLen /\ i.offset + Len(chunk) >= HeaderLen
    /\ ~CheckImportHeader(Received(i, chunk), i.size)

\* A write of a chunk; stored is FALSE when the target cannot take it.  After
\* a write that failed every other one does.
ImportWriteForgetting(i, chunk, stored) ==
    IF i.offset + Len(chunk) > i.size THEN [i EXCEPT !.failed = TRUE]
    ELSE IF HeaderRefused(i, chunk) \/ ~stored
    THEN [i EXCEPT !.header = Received(i, chunk), !.failed = TRUE]
    ELSE [i EXCEPT !.header = Received(i, chunk), !.failed = FALSE, !.offset = @ + Len(chunk),
                   !.target = Overlaid(@, chunk, i.offset)]
ImportWrite(i, chunk, stored) ==
    IF i.failed THEN i
    ELSE IF i.offset + Len(chunk) > i.size THEN [i EXCEPT !.failed = TRUE]
    ELSE IF HeaderRefused(i, chunk) \/ ~stored
    THEN [i EXCEPT !.header = Received(i, chunk), !.failed = TRUE]
    ELSE [i EXCEPT !.header = Received(i, chunk), !.offset = @ + Len(chunk),
                   !.target = Overlaid(@, chunk, i.offset)]

Complete(i) == ~i.failed /\ i.offset = i.size

\* What finish commits: a checked import is put into rollback mode.
Finished(i) == IF i.checked THEN Overlaid(i.target, <<Rollback>>, HeaderLen) ELSE i.target

-----------------------------------------------------------------------------
(* Exporting *)

NewExport(contents) == [size |-> Len(contents), offset |-> 0]

\* A read of up to n cells from a source with these contents: the export after
\* it and the cells.  The loop asks again until it has them all; a source that
\* ends early is an error, and the cursor stays.
ExportRead(e, contents, n) ==
    LET length == IF n < e.size - e.offset THEN n ELSE e.size - e.offset
    IN  IF e.offset + length <= Len(contents)
        THEN [export |-> [e EXCEPT !.offset = @ + length],
              out |-> SubSeq(contents, e.offset + 1, e.offset + length)]
        ELSE [export |-> e, out |-> <<>>]

=============================================================================
